---- MODULE Spec2Model ----
(***************************************************************************)
(* Model of the HMA service of victor-backend (hmaService.js): the HMA     *)
(* arithmetic (calculateHMAFromCandles, calculateHMAForPoint,              *)
(* calculateWMA), the session filter, and the per-symbol candle cache with *)
(* its asynchronous fetch (fetchAndCalculateHMA, clearCache,               *)
(* getCacheStats); of the trade log store (addTradeLog, importLogs,        *)
(* saveToStorage), of the trading state store (saveTradingState,           *)
(* loadTradingState, clearTradingState, hasSavedState) and of the expiry   *)
(* dates of symbolService.js (getNextWeeklyExpiry, getNextMonthlyExpiry).  *)
(*                                                                         *)
(* JavaScript numbers are modelled as exact rationals (plus NaN, null and  *)
(* undefined); closes are integers (prices in the smallest currency unit). *)
(* Sequences are 1-based here and 0-based in the source: index i of the    *)
(* source is element i + 1 of the sequence.                                *)
(***************************************************************************)
EXTENDS Integers, Sequences, FiniteSets, TLC

VARIABLES
    candleCache,   \* the module-level Map: symbol -> cache entry (or NoEntry)
    clock,         \* the wall clock read by new Date(), in milliseconds
    ticks,         \* number of clock advances so far (bounds the model)
    calls,         \* the in-flight fetchAndCalculateHMA invocations
    lastStart,     \* observation: what the most recent call start decided
    lastResult,    \* observation: outcome of the most recent finished operation
    fetchInfo,     \* observation: per symbol, the most recent history fetch
    evictInfo,     \* observation: per symbol, evict(symbol) since the last start
    observe,       \* which observations are kept, and whether access is sequential
    hmaIn,         \* input of a direct calculateHMAFromCandles call
    hmaOut,        \* its outcome
    written,       \* observation: per symbol, what the call that stored the entry returned
    rawIn,         \* input of a direct convertAndFilterTradingHoursCandles call
    normOut,       \* its result
    normAgain,     \* the result of the function applied to its own result
    wmaIn,         \* arguments of a direct calculateWMA call
    wmaOut,        \* its result
    pointIn,       \* arguments of a direct calculateHMAForPoint call
    pointOut,      \* its result and what its final loop did
    tlFile,        \* the parsed content of trade_logs.json: date key -> entries
    tlNow,         \* the wall clock of the trade log service, in minutes UTC
    tlTicks,       \* number of advances of tlNow so far
    tlCalls,       \* the addTradeLog and importLogs invocations
    tlLast,        \* observation: the saveToStorage call that has just written
    tsFiles,       \* per user, the content of the trading state file (or NoFile)
    tsNow,         \* the wall clock of the trading state service, in minutes UTC
    tsTicks,       \* number of advances of tsNow so far
    tsCalls,       \* the in-flight saveTradingState and loadTradingState calls
    tsLast,        \* observation: the operation that has just returned
    exIn,          \* arguments of a direct getNext...Expiry call
    exOut          \* its result

vars == <<candleCache, clock, ticks, calls, lastStart, lastResult, fetchInfo,
          evictInfo, observe, hmaIn, hmaOut, written, rawIn, normOut, normAgain,
          wmaIn, wmaOut, pointIn, pointOut, tlFile, tlNow, tlTicks, tlCalls,
          tlLast, tsFiles, tsNow, tsTicks, tsCalls, tsLast, exIn, exOut>>

filterVars == <<rawIn, normOut, normAgain>>
wmaVars == <<wmaIn, wmaOut>>
pointVars == <<pointIn, pointOut>>
tlVars == <<tlFile, tlNow, tlTicks, tlCalls, tlLast>>
tsVars == <<tsFiles, tsNow, tsTicks, tsCalls, tsLast>>
exVars == <<exIn, exOut>>

\* the variables of the components other than the HMA cache, the HMA series
\* and the session filter
restVars == <<wmaVars, pointVars, tlVars, tsVars, exVars>>

cacheVars == <<candleCache, clock, ticks, calls, lastStart, lastResult,
               fetchInfo, evictInfo, observe, written>>

-----------------------------------------------------------------------------
(* Program constants                                                       *)

HMA_PERIOD == 55
REQUIRED_CANDLES == 60
MARKET_START_MINUTES == 555
MARKET_END_MINUTES == 930
CACHE_MS == 5 * 60 * 1000

-----------------------------------------------------------------------------
(* JavaScript values: numbers (exact rationals n/d in lowest terms, d > 0), *)
(* NaN, null and undefined, all of one record shape.                        *)

JsVal(t, n, d) == [t |-> t, n |-> n, d |-> d]
NaN == JsVal("nan", 0, 1)
Null == JsVal("null", 0, 1)
Undefined == JsVal("undefined", 0, 1)

Abs(x) == IF x < 0 THEN -x ELSE x

RECURSIVE Gcd(_, _)
Gcd(a, b) == IF b = 0 THEN a ELSE Gcd(b, a % b)

Num(n) == JsVal("num", n, 1)

Rat(n, d) ==
    LET g == Gcd(Abs(n), d)
    IN  JsVal("num", n \div g, d \div g)

\* ToNumber: undefined -> NaN, null -> 0
ToNumber(v) ==
    IF v.t = "undefined" THEN NaN
    ELSE IF v.t = "null" THEN Num(0)
    ELSE v

JsAdd(x, y) ==
    LET a == ToNumber(x)
        b == ToNumber(y)
    IN  IF a.t = "nan" \/ b.t = "nan" THEN NaN
        ELSE IF a.d = b.d THEN Rat(a.n + b.n, a.d)
        ELSE LET l == (a.d \div Gcd(a.d, b.d)) * b.d
             IN  Rat(a.n * (l \div a.d) + b.n * (l \div b.d), l)

JsMul(x, y) ==
    LET a == ToNumber(x)
        b == ToNumber(y)
    IN  IF a.t = "nan" \/ b.t = "nan" THEN NaN
        ELSE IF a.d = 1 /\ b.d = 1 THEN Num(a.n * b.n)
        ELSE Rat(a.n * b.n, a.d * b.d)

JsSub(x, y) == JsAdd(x, JsMul(Num(-1), y))

\* x / y; the only zero divisor the program can meet is 0 / 0, which is NaN
JsDiv(x, y) ==
    LET a == ToNumber(x)
        b == ToNumber(y)
    IN  IF a.t = "nan" \/ b.t = "nan" \/ b.n = 0 THEN NaN
        ELSE IF b.n > 0 THEN Rat(a.n * b.d, a.d * b.n)
        ELSE Rat(-(a.n * b.d), a.d * (-b.n))

\* v || dflt : 0, NaN, null and undefined are falsy
JsOr(v, dflt) ==
    IF v.t \in {"nan", "null", "undefined"} \/ (v.t = "num" /\ v.n = 0)
    THEN dflt ELSE v

\* x >= y and x <= y: false as soon as one side is NaN
JsGe(x, y) ==
    LET a == ToNumber(x)
        b == ToNumber(y)
    IN  a.t = "num" /\ b.t = "num" /\ a.n * b.d >= b.n * a.d

JsLe(x, y) == JsGe(y, x)

\* Math.floor(period / 2) and Math.floor(Math.sqrt(period))
FloorHalf_roundUp(period) == (period + 1) \div 2
FloorHalf(period) == period \div 2
FloorSqrt(period) ==
    CHOOSE r \in 0..period : r * r <= period /\ (r + 1) * (r + 1) > period

-----------------------------------------------------------------------------
(* The HMA arithmetic                                                      *)

\* the loop "for (i = 0; i < period; i++) wma += data[index - i].close * weight",
\* for the iterations i = lo .. hi; the sum is exact, so it is taken by halves
RECURSIVE WeightedCloseSum(_, _, _, _, _)
WeightedCloseSum(data, index, period, lo, hi) ==
    IF lo > hi THEN Num(0)
    ELSE IF lo = hi THEN JsMul(data[index - lo + 1].close, Num(period - lo))
    ELSE LET mid == (lo + hi) \div 2
         IN  JsAdd(WeightedCloseSum(data, index, period, lo, mid),
                   WeightedCloseSum(data, index, period, mid + 1, hi))

\* the loop's "weightSum += weight", for the iterations i = lo .. hi
WeightSum_unweighted(period, lo, hi) == hi - lo + 1
RECURSIVE WeightSum(_, _, _)
WeightSum(period, lo, hi) ==
    IF lo > hi THEN 0
    ELSE IF lo = hi THEN period - lo
    ELSE LET mid == (lo + hi) \div 2
         IN  WeightSum(period, lo, mid) + WeightSum(period, mid + 1, hi)

calculateWMA(data, index, period) ==
    IF index < period - 1 THEN Num(0)
    ELSE JsDiv(WeightedCloseSum(data, index, period, 0, period - 1),
               Num(WeightSum(period, 0, period - 1)))

\* wma1, wma2 and rawHma of calculateHMAForPoint (no index guard on the loops)
RawHmaAt_singleWMA(data, index, period) ==
    JsDiv(WeightedCloseSum(data, index, period, 0, period - 1),
          Num(WeightSum(period, 0, period - 1)))
RawHmaAt(data, index, period) ==
    LET halfPeriod == FloorHalf(period)
        wma1 == JsDiv(WeightedCloseSum(data, index, halfPeriod, 0, halfPeriod - 1),
                      Num(WeightSum(halfPeriod, 0, halfPeriod - 1)))
        wma2 == JsDiv(WeightedCloseSum(data, index, period, 0, period - 1),
                      Num(WeightSum(period, 0, period - 1)))
    IN  JsSub(JsMul(Num(2), wma1), wma2)

\* the final loop of calculateHMAForPoint: <<finalHma, weightSum3>>
RECURSIVE FinalLoop(_, _, _, _)
FinalLoop(data, index, period, i) ==
    LET halfPeriod == FloorHalf(period)
        sqrtPeriod == FloorSqrt(period)
        pos == index - i
        rawPos == pos - (period - 1)
    IN  IF i >= sqrtPeriod THEN <<Num(0), 0>>
        ELSE LET rest == FinalLoop(data, index, period, i + 1)
             IN  IF rawPos < 0 THEN rest
                 ELSE LET rawValue == JsSub(JsMul(Num(2), calculateWMA(data, pos, halfPeriod)),
                                            calculateWMA(data, pos, period))
                          weight == sqrtPeriod - i
                      IN  <<JsAdd(JsMul(rawValue, Num(weight)), rest[1]), weight + rest[2]>>

\* "return finalHma / weightSum3"
FinalQuotient(fin) == JsDiv(fin[1], Num(fin[2]))

\* the first index that reaches the final loop: period + sqrtPeriod - 2
FirstSmoothedIndex_early(period) == period
FirstSmoothedIndex(period) == period + FloorSqrt(period) - 2

\* the iterations of the final loop that "continue" on rawPos < 0
FinalLoopSkipped(index, period) ==
    {i \in 0..(FloorSqrt(period) - 1) : (index - i) - (period - 1) < 0}

\* the other iterations in which a calculateWMA call returns 0 for lack of a
\* full window
FinalLoopShortWindows(index, period) ==
    {i \in (0..(FloorSqrt(period) - 1)) \ FinalLoopSkipped(index, period) :
        \/ index - i < FloorHalf(period) - 1
        \/ index - i < period - 1}

calculateHMAForPoint(data, index, period) ==
    IF index < period - 1 THEN Num(0)
    ELSE IF index < FirstSmoothedIndex(period) THEN RawHmaAt(data, index, period)
    ELSE FinalQuotient(FinalLoop(data, index, period, 0))

\* the value every point starts with ("hma: 0 // Will be calculated")
InitialHma_null == Null
InitialHma == Num(0)

\* first index the loop of calculateHMAFromCandles computes
FirstComputedIndex == HMA_PERIOD - 1

\* the length test of calculateHMAFromCandles
TooFewForHMA_offByOne(n) == n < HMA_PERIOD - 1
TooFewForHMA(n) == n < HMA_PERIOD

HmaData(candles) ==
    LET init == [k \in 1..Len(candles) |->
                    [timestamp |-> candles[k].timestamp,
                     close |-> candles[k].close,
                     hma |-> InitialHma]]
    IN  [k \in 1..Len(candles) |->
            IF k - 1 >= FirstComputedIndex
            THEN [init[k] EXCEPT !.hma = calculateHMAForPoint(init, k - 1, HMA_PERIOD)]
            ELSE init[k]]

NoValue == [period |-> 0, data |-> <<>>, currentHMA |-> Num(0), lastUpdate |-> 0]

ERR_INSUFFICIENT_HMA == "Insufficient data. Need at least 55 candles for HMA-55"

Threw(e) == [threw |-> TRUE, error |-> e, value |-> NoValue]
Returned(v) == [threw |-> FALSE, error |-> "", value |-> v]

-----------------------------------------------------------------------------
(* The session filter                                                      *)

\* Offset of the server's local time (Date#getHours, Date#getMinutes) from
\* UTC, in seconds: the exchange's zone, UTC+05:30.
TZ_OFFSET_SECONDS == 19800

\* hours * 60 + minutes of new Date(timestamp * 1000) in local time
TotalMinutes(timestamp) == ((timestamp + TZ_OFFSET_SECONDS) \div 60) % 1440

\* the .map() of convertAndFilterTradingHoursCandles, for one raw tuple
ConvertCandle(raw) ==
    [timestamp |-> raw[1],
     date |-> raw[1] * 1000,
     totalMinutes |-> TotalMinutes(raw[1]),
     open |-> raw[2],
     high |-> raw[3],
     low |-> raw[4],
     close |-> raw[5],
     volume |-> raw[6]]

\* the .filter() predicate
InTradingHours_exclusiveStart(candle) ==
    /\ candle.totalMinutes > MARKET_START_MINUTES
    /\ candle.totalMinutes <= MARKET_END_MINUTES
InTradingHours(candle) ==
    /\ candle.totalMinutes >= MARKET_START_MINUTES
    /\ candle.totalMinutes <= MARKET_END_MINUTES

convertAndFilterTradingHoursCandles(historicalData) ==
    SelectSeq([k \in 1..Len(historicalData) |-> ConvertCandle(historicalData[k])],
              InTradingHours)

\* The same function handed candle objects instead of raw tuples: an object
\* has no elements 0 .. 5, so candle[0] .. candle[5] are undefined, the Date
\* built from undefined * 1000 is invalid, and its hours and minutes are NaN.
ConvertObject(candle) ==
    [timestamp |-> Undefined,
     date |-> JsMul(Undefined, Num(1000)),
     totalMinutes |-> JsAdd(JsMul(NaN, Num(60)), NaN),
     open |-> Undefined,
     high |-> Undefined,
     low |-> Undefined,
     close |-> Undefined,
     volume |-> Undefined]

InTradingHoursOfObject(candle) ==
    /\ JsGe(candle.totalMinutes, Num(MARKET_START_MINUTES))
    /\ JsLe(candle.totalMinutes, Num(MARKET_END_MINUTES))

convertAndFilterCandleObjects(candles) ==
    SelectSeq([k \in 1..Len(candles) |-> ConvertObject(candles[k])],
              InTradingHoursOfObject)

-----------------------------------------------------------------------------
(* Inputs of a direct calculateHMAFromCandles call                         *)

MaxCandles == 61

Patterns == {"flat0", "flat100", "ramp", "down", "step", "spike", "zigzag",
             "hole0", "holeLast"}

\* close of candle i (0-based) of a sequence of n candles
PatternClose(p, i, n) ==
    CASE p = "flat0"    -> Num(0)
      [] p = "flat100"  -> Num(100)
      [] p = "ramp"     -> Num(100 + i)
      [] p = "down"     -> Num(200 - i)
      [] p = "step"     -> IF i < 28 THEN Num(139) ELSE Num(29)
      [] p = "spike"    -> IF i = 30 THEN Num(500) ELSE Num(100)
      [] p = "zigzag"   -> Num(100 + 10 * (i % 2))
      [] p = "hole0"    -> IF i = 0 THEN Undefined ELSE Num(100 + i)
      [] p = "holeLast" -> IF i = n - 1 THEN Undefined ELSE Num(100 + i)

\* n five-minute candles from 09:15 local time on
PatternCandles(p, n) ==
    [k \in 1..n |->
        LET ts == (MARKET_START_MINUTES + 5 * (k - 1)) * 60 - TZ_OFFSET_SECONDS
            c == PatternClose(p, k - 1, n)
        IN  ConvertCandle(<<ts, c, c, c, c, Num(10)>>)]

NotComputed == [threw |-> FALSE, error |-> "not computed", value |-> NoValue]

-----------------------------------------------------------------------------
(* Inputs of a direct convertAndFilterTradingHoursCandles call             *)

MaxRaw == 4

\* <<minute of day, second>> in local time: around both ends of the session,
\* inside it, and 09:15 of the next day
RawTimes ==
    { <<MARKET_START_MINUTES - 1, 59>>, <<MARKET_START_MINUTES, 0>>,
      <<700, 30>>,
      <<MARKET_END_MINUTES, 59>>, <<MARKET_END_MINUTES + 1, 0>>,
      <<1440 + MARKET_START_MINUTES, 0>> }

\* the raw tuple at position k of a history: its close tells it apart
RawTuple(time, k) ==
    <<time[1] * 60 + time[2] - TZ_OFFSET_SECONDS,
      Num(100 + k), Num(101 + k), Num(99 + k), Num(100 + k), Num(10)>>

\* histories of n tuples in any order of time, repeated times included
RawInputs(n) ==
    { [k \in 1..n |-> RawTuple(times[k], k)] : times \in [1..n -> RawTimes] }

NotNormalized == [done |-> FALSE, candles |-> <<>>]
Normalized(candles) == [done |-> TRUE, candles |-> candles]

-----------------------------------------------------------------------------
(* The history source (fetchHistoricalData over the broker's endpoint)     *)

\* n raw five-minute tuples [ts, open, high, low, close, volume], the first
\* at minute-of-day startMin local time, with closes base, base + 1, ...
RawHistory(startMin, n, base) ==
    [k \in 1..n |->
        <<(startMin + 5 * (k - 1)) * 60 - TZ_OFFSET_SECONDS,
          Num(base + k - 1), Num(base + k), Num(base + k - 2), Num(base + k - 1),
          Num(10)>>]

\* REQUIRED_CANDLES + 1 raw candles each; 59, 60 and 61 of them in session
Histories ==
    { <<>>,
      RawHistory(MARKET_START_MINUTES - 10, REQUIRED_CANDLES + 1, 100),
      RawHistory(MARKET_START_MINUTES - 5, REQUIRED_CANDLES + 1, 100),
      RawHistory(MARKET_START_MINUTES, REQUIRED_CANDLES + 1, 200) }

\* what the endpoint may answer: response.data of axios.get, or a rejection
Response(net, s, hasCandles, candles, message) ==
    [net |-> net, s |-> s, hasCandles |-> hasCandles, candles |-> candles,
     message |-> message]

Responses ==
    { Response("ok", "ok", TRUE, h, "") : h \in Histories }
    \cup { Response("ok", "no_data", FALSE, <<>>, ""),
           Response("ok", "error", FALSE, <<>>, "Invalid symbol"),
           Response("ok", "ok", FALSE, <<>>, ""),
           Response("rejected", "", FALSE, <<>>, "Network Error") }

ERR_NO_TOKEN == "No valid authentication token found"
ERR_FETCH_DEFAULT == "Failed to fetch historical data"
ERR_NO_HISTORY == "No historical data available"
ERR_INSUFFICIENT == "Insufficient data for HMA calculation. Need 60 candles"

FetchThrew(e) == [threw |-> TRUE, error |-> e, candles |-> <<>>]
FetchReturned(c) == [threw |-> FALSE, error |-> "", candles |-> c]

\* the body of fetchHistoricalData once axios.get has settled with resp
\* (its catch block logs and rethrows the same error)
fetchHistoricalData(accessToken, resp) ==
    IF ~accessToken THEN FetchThrew(ERR_NO_TOKEN)
    ELSE IF resp.net = "rejected" THEN FetchThrew(resp.message)
    ELSE IF resp.s = "ok" /\ resp.hasCandles THEN FetchReturned(resp.candles)
    ELSE IF resp.s = "no_data" THEN FetchReturned(<<>>)
    ELSE FetchThrew(IF resp.message # "" THEN resp.message ELSE ERR_FETCH_DEFAULT)

-----------------------------------------------------------------------------
(* The candles and HMA series of the histories above, computed once: the    *)
(* operators below look a known input up and compute any other input.       *)

KnownCandles ==
    [h \in Histories |-> convertAndFilterTradingHoursCandles(h)]

KnownHmaData ==
    [c \in {KnownCandles[h] : h \in Histories} |-> HmaData(c)]

FilteredCandles(historicalData) ==
    IF historicalData \in Histories THEN KnownCandles[historicalData]
    ELSE convertAndFilterTradingHoursCandles(historicalData)

HmaDataOf(candles) ==
    IF candles \in DOMAIN KnownHmaData THEN KnownHmaData[candles]
    ELSE HmaData(candles)

\* the object calculateHMAFromCandles returns
HmaConfig(hmaData, now) ==
    [period |-> HMA_PERIOD,
     data |-> hmaData,
     currentHMA |-> JsOr(hmaData[Len(hmaData)].hma, Num(0)),
     lastUpdate |-> now]

calculateHMAFromCandles(candles, now) ==
    IF TooFewForHMA(Len(candles)) THEN Threw(ERR_INSUFFICIENT_HMA)
    ELSE Returned(HmaConfig(HmaDataOf(candles), now))

-----------------------------------------------------------------------------
(* fetchAndCalculateHMA, clearCache: the pure parts                        *)

NoEntry ==
    [present |-> FALSE, candles |-> <<>>, lastUpdate |-> 0, symbol |-> "",
     isLiveMonitoring |-> FALSE]

\* the cache-hit test
IsFresh_inclusive(cached, now) ==
    /\ cached.present
    /\ Len(cached.candles) >= REQUIRED_CANDLES
    /\ now - cached.lastUpdate <= CACHE_MS
IsFresh_moreThanRequired(cached, now) ==
    /\ cached.present
    /\ Len(cached.candles) > REQUIRED_CANDLES
    /\ now - cached.lastUpdate < CACHE_MS
IsFresh(cached, now) ==
    /\ cached.present
    /\ Len(cached.candles) >= REQUIRED_CANDLES
    /\ now - cached.lastUpdate < CACHE_MS

\* the object returned on a cache hit
CachedResult_touched(cached) ==
    [period |-> HMA_PERIOD,
     data |-> [k \in 1..Len(cached.candles) |->
                  [timestamp |-> cached.candles[k].timestamp,
                   close |-> cached.candles[k].close,
                   hma |-> cached.candles[k].hma]],
     currentHMA |-> cached.candles[Len(cached.candles)].hma,
     lastUpdate |-> cached.lastUpdate + 1]
CachedResult(cached) ==
    [period |-> HMA_PERIOD,
     data |-> [k \in 1..Len(cached.candles) |->
                  [timestamp |-> cached.candles[k].timestamp,
                   close |-> cached.candles[k].close,
                   hma |-> cached.candles[k].hma]],
     currentHMA |-> cached.candles[Len(cached.candles)].hma,
     lastUpdate |-> cached.lastUpdate]

\* candles.map((candle, index) => ({...candle, hma: index >= HMA_PERIOD - 1 ? ... : null}))
CandlesWithHMA(candles, hmaConfig) ==
    [k \in 1..Len(candles) |->
        [timestamp |-> candles[k].timestamp,
         date |-> candles[k].date,
         totalMinutes |-> candles[k].totalMinutes,
         open |-> candles[k].open,
         high |-> candles[k].high,
         low |-> candles[k].low,
         close |-> candles[k].close,
         volume |-> candles[k].volume,
         hma |-> IF k - 1 >= HMA_PERIOD - 1 THEN hmaConfig.data[k].hma ELSE Null]]

\* the test "candles.length < REQUIRED_CANDLES"
TooFewCandles_inclusive(n) == n <= REQUIRED_CANDLES
TooFewCandles_hmaPeriod(n) == n < HMA_PERIOD
TooFewCandles(n) == n < REQUIRED_CANDLES

\* catch (error) { console.error(...); throw error; }
CatchRethrow_wrapped(error) == "Failed to calculate HMA"
CatchRethrow(error) == error

\* what the catch block does to the cache: nothing
CacheOnError_dropped(cache, symbol) == [cache EXCEPT ![symbol] = NoEntry]
CacheOnError_cleared(cache, symbol) == [s \in DOMAIN cache |-> NoEntry]
CacheOnError(cache, symbol) == cache

\* candleCache.set(symbol, entry)
CacheSet_ifAbsent(cache, symbol, entry) ==
    IF cache[symbol].present THEN cache ELSE [cache EXCEPT ![symbol] = entry]
CacheSet_keepLastUpdate(cache, symbol, entry) ==
    IF cache[symbol].present
    THEN [cache EXCEPT ![symbol].candles = entry.candles]
    ELSE [cache EXCEPT ![symbol] = entry]
CacheSet(cache, symbol, entry) == [cache EXCEPT ![symbol] = entry]

\* candleCache.delete(symbol)
CacheDelete_kept(cache, symbol) == cache
CacheDelete_all(cache, symbol) == [s \in DOMAIN cache |-> NoEntry]
CacheDelete(cache, symbol) == [cache EXCEPT ![symbol] = NoEntry]

\* the return value of clearCache for a truthy symbol
ClearCacheReturn(cache, symbol) == TRUE

\* getCacheStats: one record per entry of the Map (the order of the records,
\* the Map's insertion order, is not modelled)
StatsCandleCount_required(entry) == REQUIRED_CANDLES
StatsCandleCount(entry) == Len(entry.candles)

getCacheStats(cache) ==
    { [symbol |-> s,
       candleCount |-> StatsCandleCount(cache[s]),
       lastUpdate |-> cache[s].lastUpdate] :
         s \in {x \in DOMAIN cache : cache[x].present} }

Outcome(threw, error, value, stored, cache) ==
    [threw |-> threw, error |-> error, value |-> value, stored |-> stored,
     cache |-> cache]

\* the throw statements of fetchAndCalculateHMA, through its catch block
Fail(cache, symbol, error) ==
    Outcome(TRUE, CatchRethrow(error), NoValue, FALSE, CacheOnError(cache, symbol))

\* fetchAndCalculateHMA once hmaConfig has been computed: the cache update
\* and the return
AfterHMA(cache, symbol, candles, hma, now) ==
    IF hma.threw THEN Fail(cache, symbol, hma.error)
    ELSE Outcome(FALSE, "", hma.value, TRUE,
                 CacheSet(cache, symbol,
                          [present |-> TRUE,
                           candles |-> CandlesWithHMA(candles, hma.value),
                           lastUpdate |-> now,
                           symbol |-> symbol,
                           isLiveMonitoring |-> FALSE]))

\* fetchAndCalculateHMA once the candles have been converted and filtered
AfterFilter(cache, symbol, candles, now) ==
    IF TooFewCandles(Len(candles)) THEN Fail(cache, symbol, ERR_INSUFFICIENT)
    ELSE AfterHMA(cache, symbol, candles, calculateHMAFromCandles(candles, now), now)

\* fetchAndCalculateHMA from the point where the awaited fetchHistoricalData
\* has settled with fr, at time now, on the cache as it is then
AfterFetch(cache, symbol, fr, now) ==
    IF fr.threw THEN Fail(cache, symbol, fr.error)
    ELSE IF Len(fr.candles) = 0 THEN Fail(cache, symbol, ERR_NO_HISTORY)
    ELSE AfterFilter(cache, symbol, FilteredCandles(fr.candles), now)

-----------------------------------------------------------------------------
(* The components called directly: their idle values                       *)

NoWMA == [data |-> <<>>, index |-> 0, period |-> 0]
NotAveraged == [done |-> FALSE, value |-> Num(0)]

NoPoint == [data |-> <<>>, index |-> 0, period |-> 0]
NotSmoothed ==
    [done |-> FALSE, value |-> Num(0), smoothed |-> FALSE, skipped |-> {},
     shortWindows |-> {}, weightSum3 |-> 0]

IdleWMA == wmaIn = NoWMA /\ wmaOut = NotAveraged
IdlePoint == pointIn = NoPoint /\ pointOut = NotSmoothed
IdleTradeLog ==
    tlFile = <<>> /\ tlNow = 0 /\ tlTicks = 0 /\ tlCalls = <<>> /\ tlLast = <<>>
IdleTradingState ==
    tsFiles = <<>> /\ tsNow = 0 /\ tsTicks = 0 /\ tsCalls = <<>> /\ tsLast = <<>>
IdleExpiry == exIn = <<>> /\ exOut = <<>>

\* every such component but g is idle
IdleExcept(g) ==
    /\ g # "wma" => IdleWMA
    /\ g # "point" => IdlePoint
    /\ g # "tradeLog" => IdleTradeLog
    /\ g # "tradingState" => IdleTradingState
    /\ g # "expiry" => IdleExpiry

IdleRest == IdleExcept("none")

-----------------------------------------------------------------------------
(* The cache as a state machine                                            *)

MaxCalls == 2
MaxTicks == 2

Symbols == {"CE", "PE"}
Calls == 1..MaxCalls

\* clock advances: 1 ms, and 1 ms short of the five minutes
TickSteps == {1, CACHE_MS - 1}

IdleCall ==
    [pc |-> "idle", symbol |-> "", fetches |-> 0, race |-> "none",
     otherStored |-> FALSE]

\* lastStart and lastResult describe the step just taken, and are reset by
\* the next step
NoStart ==
    [outcome |-> "none", symbol |-> "", had |-> FALSE, count |-> 0, age |-> 0,
     fetched |-> FALSE, afterEvict |-> FALSE, storedSinceEvict |-> FALSE,
     sinceFetch |-> -1, prevKept |-> FALSE]

NoResult ==
    [op |-> "none", symbol |-> "", hit |-> FALSE, threw |-> FALSE,
     error |-> "", value |-> NoValue, fetches |-> 0, fetchThrew |-> FALSE,
     fetchError |-> "", fetched |-> <<>>, stored |-> FALSE, race |-> "none",
     otherStored |-> FALSE, returned |-> FALSE, hadEntry |-> FALSE,
     stats |-> {}]

\* at: when fetchHistoricalData was last invoked for the symbol (-1: never);
\* kept: the call that made that fetch stored an entry, not evicted since
NoFetch == [at |-> -1, kept |-> FALSE]
\* pending: clearCache(symbol) has returned and no call for symbol has started
\* since; storedSince: an entry for symbol was stored since that clearCache
NoEvict == [pending |-> FALSE, storedSince |-> FALSE]

\* observe is fixed by the initial state: "race", "evict", "fetch" and
\* "written" switch on the bookkeeping of calls[c].race, evictInfo, fetchInfo
\* and written; "sequential" restricts the callers to one
\* fetchAndCalculateHMA call at a time
InitCache(obs) ==
    /\ candleCache = [s \in Symbols |-> NoEntry]
    /\ clock = 0
    /\ ticks = 0
    /\ calls = [c \in Calls |-> IdleCall]
    /\ lastStart = NoStart
    /\ lastResult = NoResult
    /\ fetchInfo = [s \in Symbols |-> NoFetch]
    /\ evictInfo = [s \in Symbols |-> NoEvict]
    /\ observe = obs
    /\ hmaIn = <<>>
    /\ hmaOut = NotComputed
    /\ written = [s \in Symbols |-> NoValue]
    /\ rawIn = <<>>
    /\ normOut = NotNormalized
    /\ normAgain = NotNormalized
    /\ IdleRest

Init == InitCache({})
InitRace == InitCache({"race"})
InitEvict == InitCache({"evict"})
InitSequential == InitCache({"sequential", "fetch"})
InitHit == InitCache({"written"})

\* what a call start observes, recorded in lastStart
StartObservation(symbol, outcome, fetched) ==
    LET cached == candleCache[symbol]
    IN  [outcome |-> outcome,
         symbol |-> symbol,
         had |-> cached.present,
         count |-> Len(cached.candles),
         age |-> IF cached.present THEN clock - cached.lastUpdate ELSE 0,
         fetched |-> fetched,
         afterEvict |-> evictInfo[symbol].pending,
         storedSinceEvict |-> evictInfo[symbol].storedSince,
         sinceFetch |-> IF fetchInfo[symbol].at < 0 THEN -1
                        ELSE clock - fetchInfo[symbol].at,
         prevKept |-> fetchInfo[symbol].kept]

\* the outcome of a finished fetchAndCalculateHMA call, recorded in lastResult
CallResult(symbol, hit, out, fetches, fr, race, otherStored) ==
    [op |-> "fetchAndCalculateHMA", symbol |-> symbol, hit |-> hit,
     threw |-> out.threw, error |-> out.error, value |-> out.value,
     fetches |-> fetches, fetchThrew |-> fr.threw, fetchError |-> fr.error,
     fetched |-> fr.candles, stored |-> out.stored, race |-> race,
     otherStored |-> otherStored, returned |-> FALSE,
     hadEntry |-> candleCache[symbol].present, stats |-> {}]

TrackFetch(symbol, info) ==
    IF "fetch" \in observe THEN [fetchInfo EXCEPT ![symbol] = info] ELSE fetchInfo

TrackEvict(symbol, info) ==
    IF "evict" \in observe THEN [evictInfo EXCEPT ![symbol] = info] ELSE evictInfo

\* the wall clock advances
Tick(d) ==
    /\ ticks < MaxTicks
    /\ clock' = clock + d
    /\ ticks' = ticks + 1
    /\ lastStart' = NoStart
    /\ lastResult' = NoResult
    /\ UNCHANGED <<candleCache, calls, fetchInfo, evictInfo, observe,
                   hmaIn, hmaOut, written, filterVars, restVars>>

\* a call whose fetchHistoricalData threw before suspending runs to its end
FailAtOnce(symbol, fr, now) ==
    /\ lastResult' = CallResult(symbol, FALSE, AfterFetch(candleCache, symbol, fr, now),
                                1, fr, "none", FALSE)
    /\ candleCache' = CacheOnError(candleCache, symbol)
    /\ fetchInfo' = TrackFetch(symbol, [at |-> now, kept |-> FALSE])

\* fetchAndCalculateHMA(symbol, accessToken) from its entry to its first
\* suspension: a cache hit returns at once; a miss calls fetchHistoricalData,
\* which throws at once without a token (nothing can run before the call
\* ends) and otherwise suspends in axios.get
Start(c, symbol, accessToken) ==
    /\ calls[c].pc = "idle"
    /\ \A d \in Calls : d < c => calls[d].pc # "idle"
    /\ "sequential" \in observe => \A d \in Calls : calls[d].pc = "idle"
    /\ LET cached == candleCache[symbol]
           now == clock
           sameSymbol == {d \in Calls : /\ calls[d].pc = "fetching"
                                        /\ calls[d].symbol = symbol
                                        /\ "race" \in observe}
       IN  /\ evictInfo' = TrackEvict(symbol, NoEvict)
           /\ IF IsFresh(cached, now)
              THEN /\ lastStart' = StartObservation(symbol, "hit", FALSE)
                   /\ lastResult' = CallResult(symbol, TRUE,
                          Outcome(FALSE, "", CachedResult(cached), FALSE, candleCache),
                          0, FetchReturned(<<>>), "none", FALSE)
                   /\ UNCHANGED <<candleCache, calls, fetchInfo>>
              ELSE IF ~accessToken
              THEN /\ lastStart' = StartObservation(symbol, "miss", TRUE)
                   /\ FailAtOnce(symbol, FetchThrew(ERR_NO_TOKEN), now)
                   /\ UNCHANGED calls
              ELSE /\ lastStart' = StartObservation(symbol, "miss", TRUE)
                   /\ lastResult' = NoResult
                   /\ calls' = [d \in Calls |->
                          IF d = c
                          THEN [pc |-> "fetching", symbol |-> symbol, fetches |-> 1,
                                race |-> IF sameSymbol # {} THEN "second" ELSE "none",
                                otherStored |-> FALSE]
                          ELSE IF d \in sameSymbol /\ calls[d].race = "none"
                          THEN [calls[d] EXCEPT !.race = "first"]
                          ELSE calls[d]]
                   /\ fetchInfo' = TrackFetch(symbol, [at |-> now, kept |-> FALSE])
                   /\ UNCHANGED candleCache
    /\ UNCHANGED <<clock, ticks, observe, hmaIn, hmaOut, written, filterVars, restVars>>

\* call c ends with outcome out, its fetch having settled with fr
Finish(c, symbol, fr, out) ==
    /\ candleCache' = out.cache
    /\ written' = IF out.stored /\ "written" \in observe
                  THEN [written EXCEPT ![symbol] = out.value]
                  ELSE written
    /\ lastResult' = CallResult(symbol, FALSE, out, calls[c].fetches, fr,
                                calls[c].race, calls[c].otherStored)
    /\ IF out.stored
       THEN /\ fetchInfo' = TrackFetch(symbol, [fetchInfo[symbol] EXCEPT !.kept = TRUE])
            /\ evictInfo' = TrackEvict(symbol,
                   [evictInfo[symbol] EXCEPT !.storedSince = evictInfo[symbol].pending])
            /\ calls' = [d \in Calls |->
                   IF d = c THEN IdleCall
                   ELSE IF /\ calls[d].pc = "fetching"
                           /\ calls[d].symbol = symbol
                           /\ "race" \in observe
                   THEN [calls[d] EXCEPT !.otherStored = TRUE]
                   ELSE calls[d]]
       ELSE /\ calls' = [calls EXCEPT ![c] = IdleCall]
            /\ UNCHANGED <<fetchInfo, evictInfo>>

\* axios.get settles with resp and call c runs to its end
Complete(c, resp) ==
    /\ calls[c].pc = "fetching"
    /\ Finish(c, calls[c].symbol, fetchHistoricalData(TRUE, resp),
              AfterFetch(candleCache, calls[c].symbol,
                         fetchHistoricalData(TRUE, resp), clock))
    /\ lastStart' = NoStart
    /\ UNCHANGED <<clock, ticks, observe, hmaIn, hmaOut, filterVars, restVars>>

\* clearCache(symbol); "" is the falsy symbol
ClearCache(symbol) ==
    /\ IF symbol # ""
       THEN /\ candleCache' = CacheDelete(candleCache, symbol)
            /\ lastResult' = [NoResult EXCEPT
                   !.op = "clearCache", !.symbol = symbol,
                   !.returned = ClearCacheReturn(candleCache, symbol),
                   !.hadEntry = candleCache[symbol].present]
            /\ fetchInfo' = TrackFetch(symbol, [fetchInfo[symbol] EXCEPT !.kept = FALSE])
            /\ evictInfo' = TrackEvict(symbol, [pending |-> TRUE, storedSince |-> FALSE])
            /\ written' = [written EXCEPT ![symbol] = NoValue]
       ELSE /\ lastResult' = [NoResult EXCEPT
                   !.op = "clearCache", !.symbol = symbol,
                   !.returned = FALSE, !.hadEntry = FALSE]
            /\ UNCHANGED <<candleCache, fetchInfo, evictInfo, written>>
    /\ lastStart' = NoStart
    /\ UNCHANGED <<clock, ticks, calls, observe, hmaIn, hmaOut, filterVars, restVars>>

\* getCacheStats()
GetCacheStats ==
    /\ lastResult' = [NoResult EXCEPT !.op = "getCacheStats",
                                      !.stats = getCacheStats(candleCache)]
    /\ lastStart' = NoStart
    /\ UNCHANGED <<candleCache, clock, ticks, calls, fetchInfo, evictInfo, observe,
                   hmaIn, hmaOut, written, filterVars, restVars>>

Next ==
    \/ \E d \in TickSteps : Tick(d)
    \/ \E c \in Calls, s \in Symbols, tok \in BOOLEAN : Start(c, s, tok)
    \/ \E c \in Calls, r \in Responses : Complete(c, r)
    \/ \E s \in Symbols \cup {""} : ClearCache(s)
    \/ GetCacheStats

Spec == Init /\ [][Next]_vars
SpecRace == InitRace /\ [][Next]_vars
SpecEvict == InitEvict /\ [][Next]_vars
SpecSequential == InitSequential /\ [][Next]_vars
SpecHit == InitHit /\ [][Next]_vars

-----------------------------------------------------------------------------
(* calculateHMAFromCandles called directly                                 *)

InitHMA ==
    /\ candleCache = [s \in Symbols |-> NoEntry]
    /\ clock = 0
    /\ ticks = 0
    /\ calls = [c \in Calls |-> IdleCall]
    /\ lastStart = NoStart
    /\ lastResult = NoResult
    /\ fetchInfo = [s \in Symbols |-> NoFetch]
    /\ evictInfo = [s \in Symbols |-> NoEvict]
    /\ observe = {}
    /\ \E p \in Patterns, n \in 0..MaxCandles : hmaIn = PatternCandles(p, n)
    /\ hmaOut = NotComputed
    /\ written = [s \in Symbols |-> NoValue]
    /\ rawIn = <<>>
    /\ normOut = NotNormalized
    /\ normAgain = NotNormalized
    /\ IdleRest

ComputeHMA ==
    /\ hmaOut = NotComputed
    /\ hmaOut' = calculateHMAFromCandles(hmaIn, clock)
    /\ UNCHANGED <<hmaIn, cacheVars, filterVars, restVars>>

NextHMA == ComputeHMA

SpecHMA == InitHMA /\ [][NextHMA]_vars

-----------------------------------------------------------------------------
(* convertAndFilterTradingHoursCandles called directly, and then on its    *)
(* own result                                                              *)

InitFilter ==
    /\ candleCache = [s \in Symbols |-> NoEntry]
    /\ clock = 0
    /\ ticks = 0
    /\ calls = [c \in Calls |-> IdleCall]
    /\ lastStart = NoStart
    /\ lastResult = NoResult
    /\ fetchInfo = [s \in Symbols |-> NoFetch]
    /\ evictInfo = [s \in Symbols |-> NoEvict]
    /\ observe = {}
    /\ hmaIn = <<>>
    /\ hmaOut = NotComputed
    /\ written = [s \in Symbols |-> NoValue]
    /\ \E n \in 0..MaxRaw : rawIn \in RawInputs(n)
    /\ normOut = NotNormalized
    /\ normAgain = NotNormalized
    /\ IdleRest

Normalize ==
    /\ ~normOut.done
    /\ normOut' = Normalized(convertAndFilterTradingHoursCandles(rawIn))
    /\ UNCHANGED <<rawIn, normAgain, cacheVars, hmaIn, hmaOut, restVars>>

NormalizeAgain ==
    /\ normOut.done
    /\ ~normAgain.done
    /\ normAgain' = Normalized(convertAndFilterCandleObjects(normOut.candles))
    /\ UNCHANGED <<rawIn, normOut, cacheVars, hmaIn, hmaOut, restVars>>

NextFilter == Normalize \/ NormalizeAgain

SpecFilter == InitFilter /\ [][NextFilter]_vars

-----------------------------------------------------------------------------
(* calculateWMA and calculateHMAForPoint called directly                   *)

\* everything of the HMA cache, the HMA series and the session filter idle
IdleCore ==
    /\ candleCache = [s \in Symbols |-> NoEntry]
    /\ clock = 0
    /\ ticks = 0
    /\ calls = [c \in Calls |-> IdleCall]
    /\ lastStart = NoStart
    /\ lastResult = NoResult
    /\ fetchInfo = [s \in Symbols |-> NoFetch]
    /\ evictInfo = [s \in Symbols |-> NoEvict]
    /\ observe = {}
    /\ hmaIn = <<>>
    /\ hmaOut = NotComputed
    /\ written = [s \in Symbols |-> NoValue]
    /\ rawIn = <<>>
    /\ normOut = NotNormalized
    /\ normAgain = NotNormalized

coreVars == <<cacheVars, hmaIn, hmaOut, filterVars>>

\* the windows tried: the two of HMA-55 and two small ones
WmaPeriods == {1, 2, FloorHalf(HMA_PERIOD), HMA_PERIOD}

InitWMA ==
    /\ IdleCore
    /\ IdleExcept("wma")
    /\ \E p \in Patterns, index \in 0..(MaxCandles - 1), period \in WmaPeriods :
          wmaIn = [data |-> PatternCandles(p, MaxCandles), index |-> index,
                   period |-> period]
    /\ wmaOut = NotAveraged

ComputeWMA ==
    /\ ~wmaOut.done
    /\ wmaOut' = [done |-> TRUE,
                  value |-> calculateWMA(wmaIn.data, wmaIn.index, wmaIn.period)]
    /\ UNCHANGED <<wmaIn, coreVars, pointVars, tlVars, tsVars, exVars>>

NextWMA == ComputeWMA

SpecWMA == InitWMA /\ [][NextWMA]_vars

InitPoint ==
    /\ IdleCore
    /\ IdleExcept("point")
    /\ \E p \in Patterns, index \in 0..(MaxCandles - 1) :
          pointIn = [data |-> PatternCandles(p, MaxCandles), index |-> index,
                     period |-> HMA_PERIOD]
    /\ pointOut = NotSmoothed

\* calculateHMAForPoint(data, index, period), with what its final loop did
\* when the call got that far
ComputePoint ==
    /\ ~pointOut.done
    /\ pointOut' =
          IF /\ pointIn.index >= pointIn.period - 1
             /\ pointIn.index >= FirstSmoothedIndex(pointIn.period)
          THEN [done |-> TRUE,
                value |-> calculateHMAForPoint(pointIn.data, pointIn.index, pointIn.period),
                smoothed |-> TRUE,
                skipped |-> FinalLoopSkipped(pointIn.index, pointIn.period),
                shortWindows |-> FinalLoopShortWindows(pointIn.index, pointIn.period),
                weightSum3 |-> FinalLoop(pointIn.data, pointIn.index, pointIn.period, 0)[2]]
          ELSE [NotSmoothed EXCEPT
                   !.done = TRUE,
                   !.value = calculateHMAForPoint(pointIn.data, pointIn.index,
                                                  pointIn.period)]
    /\ UNCHANGED <<pointIn, coreVars, wmaVars, tlVars, tsVars, exVars>>

NextPoint == ComputePoint

SpecPoint == InitPoint /\ [][NextPoint]_vars

-----------------------------------------------------------------------------
(* JavaScript dates and strings                                            *)

\* Date: the civil date of day n since 1970-01-01, and back (proleptic
\* Gregorian calendar)
CivilFromDays(n) ==
    LET z == n + 719468
        era == z \div 146097
        doe == z - era * 146097
        yoe == (doe - (doe \div 1460) + (doe \div 36524) - (doe \div 146096)) \div 365
        doy == doe - (365 * yoe + (yoe \div 4) - (yoe \div 100))
        mp == (5 * doy + 2) \div 153
        m == IF mp < 10 THEN mp + 3 ELSE mp - 9
    IN  [y |-> yoe + era * 400 + (IF m <= 2 THEN 1 ELSE 0),
         m |-> m,
         d |-> doy - ((153 * mp + 2) \div 5) + 1]

DaysFromCivil(y, m, d) ==
    LET yy == IF m <= 2 THEN y - 1 ELSE y
        era == yy \div 400
        yoe == yy - era * 400
        mp == IF m > 2 THEN m - 3 ELSE m + 9
        doy == ((153 * mp + 2) \div 5) + d - 1
        doe == yoe * 365 + (yoe \div 4) - (yoe \div 100) + doy
    IN  era * 146097 + doe - 719468

\* strings are sequences of UTF-16 code units: "0" is 48, "-" is 45
TwoDigits(n) == <<48 + (n \div 10), 48 + (n % 10)>>
FourDigits(n) ==
    <<48 + (n \div 1000), 48 + ((n \div 100) % 10), 48 + ((n \div 10) % 10),
      48 + (n % 10)>>

\* date.toISOString().split('T')[0] of the instant t (minutes since the epoch)
ISODateKey(t) ==
    LET c == CivilFromDays(t \div 1440)
    IN  FourDigits(c.y) \o <<45>> \o TwoDigits(c.m) \o <<45>> \o TwoDigits(c.d)

\* a < b on strings
RECURSIVE StrLess(_, _)
StrLess(a, b) ==
    IF b = <<>> THEN FALSE
    ELSE IF a = <<>> THEN TRUE
    ELSE IF Head(a) # Head(b) THEN Head(a) < Head(b)
    ELSE StrLess(Tail(a), Tail(b))

TZ_OFFSET_MINUTES == TZ_OFFSET_SECONDS \div 60

\* date.setDate(date.getDate() - days) on the instant t: the same local time
\* of day, days local calendar days earlier
SetDateBack(t, days) ==
    LET local == t + TZ_OFFSET_MINUTES
    IN  ((local \div 1440) - days) * 1440 + (local % 1440) - TZ_OFFSET_MINUTES

-----------------------------------------------------------------------------
(* The trade log store                                                     *)

MAX_STORAGE_DAYS == 60

getTodayKey(now) == ISODateKey(now)

\* the cutoffKey of saveToStorage
CutoffKey(now) == ISODateKey(SetDateBack(now, MAX_STORAGE_DAYS))

\* the test "date >= cutoffKey"
KeepsKey_strict(date, cutoffKey) == StrLess(cutoffKey, date)
KeepsKey(date, cutoffKey) == ~StrLess(date, cutoffKey)

\* cleanedLogs
CleanedLogs(logs, now) ==
    [date \in {k \in DOMAIN logs : KeepsKey(k, CutoffKey(now))} |-> logs[date]]

\* if (!allLogs[todayKey]) allLogs[todayKey] = []; allLogs[todayKey].unshift(tradeLog)
Unshift(logs, key, entry) ==
    [k \in DOMAIN logs \cup {key} |->
        IF k = key
        THEN <<entry>> \o (IF key \in DOMAIN logs THEN logs[key] ELSE <<>>)
        ELSE logs[k]]

MaxTlCalls == 2
MaxTlTicks == 2

TlCalls == 1..MaxTlCalls

\* the first day of the model: 2025-03-01, sixty days after 2024-12-31
TlBaseDay == DaysFromCivil(2025, 3, 1)

\* the clock (of this store and of the trading state store) starts a quarter
\* of an hour before local midnight, or before midnight UTC, and advances by
\* half an hour or by a day
TlStartMinutes == {TlBaseDay * 1440 + 1095, TlBaseDay * 1440 + 1425}
TlTickSteps == {30, 1440}

\* logs with one entry on each of the days given (relative to TlBaseDay)
LogsOn(days) ==
    [k \in {ISODateKey((TlBaseDay + d) * 1440) : d \in days} |->
        <<200 + (CHOOSE d \in days : ISODateKey((TlBaseDay + d) * 1440) = k)>>]

\* what earlier days may have left in the file
StoredBefore == {LogsOn({}), LogsOn({-61, -60, -1}), LogsOn({0})}

\* the JSON passed to importLogs: parsed, or not parseable
ImportInputs ==
    {[valid |-> TRUE, logs |-> LogsOn({-62, -61, -60, -59, 0, 1})],
     [valid |-> TRUE, logs |-> LogsOn({})],
     [valid |-> FALSE, logs |-> <<>>]}

\* pc: "reading" (readFile of getStoredLogs pending), "saving" (saveToStorage
\* awaiting ensureDataDir), "writing" (writeFile pending), "done"; the entry
\* added by addTradeLog call c is c; seq is the order in which the calls
\* started
IdleTlCall ==
    [pc |-> "idle", op |-> "none", key |-> <<>>, logs |-> <<>>, given |-> <<>>,
     savedAt |-> 0, seq |-> 0, returned |-> FALSE]

NoSave == [op |-> "none", call |-> 0, given |-> <<>>, savedAt |-> 0]

InitTradeLog ==
    /\ IdleCore
    /\ IdleExcept("tradeLog")
    /\ tlFile \in StoredBefore
    /\ tlNow \in TlStartMinutes
    /\ tlTicks = 0
    /\ tlCalls = [c \in TlCalls |-> IdleTlCall]
    /\ tlLast = NoSave

TlOthers == <<coreVars, wmaVars, pointVars, tsVars, exVars>>

TlStarted == Cardinality({c \in TlCalls : tlCalls[c].pc # "idle"})

TlTick(d) ==
    /\ tlTicks < MaxTlTicks
    /\ tlNow' = tlNow + d
    /\ tlTicks' = tlTicks + 1
    /\ tlLast' = NoSave
    /\ UNCHANGED <<tlFile, tlCalls, TlOthers>>

\* addTradeLog(trade) up to the readFile of getStoredLogs
AddStart(c) ==
    /\ tlCalls[c].pc = "idle"
    /\ \A d \in TlCalls : d < c => tlCalls[d].pc # "idle"
    /\ tlCalls' = [tlCalls EXCEPT ![c] =
          [IdleTlCall EXCEPT !.pc = "reading", !.op = "add", !.seq = TlStarted + 1]]
    /\ tlLast' = NoSave
    /\ UNCHANGED <<tlFile, tlNow, tlTicks, TlOthers>>

\* readFile settles: getStoredLogs returns the parsed file ({} when there is
\* none), addTradeLog prepends its entry under todayKey and calls
\* saveToStorage, which awaits ensureDataDir
AddRead(c) ==
    /\ tlCalls[c].pc = "reading"
    /\ tlCalls' = [tlCalls EXCEPT ![c] =
          [@ EXCEPT !.pc = "saving",
                    !.key = getTodayKey(tlNow),
                    !.logs = Unshift(tlFile, getTodayKey(tlNow), c),
                    !.given = Unshift(tlFile, getTodayKey(tlNow), c)]]
    /\ tlLast' = NoSave
    /\ UNCHANGED <<tlFile, tlNow, tlTicks, TlOthers>>

\* importLogs(jsonData): JSON.parse, then saveToStorage up to its first await;
\* a parse error returns false at once
ImportStart(c, json) ==
    /\ tlCalls[c].pc = "idle"
    /\ \A d \in TlCalls : d < c => tlCalls[d].pc # "idle"
    /\ tlCalls' = [tlCalls EXCEPT ![c] =
          IF json.valid
          THEN [IdleTlCall EXCEPT !.pc = "saving", !.op = "import",
                                  !.logs = json.logs, !.given = json.logs,
                                  !.seq = TlStarted + 1]
          ELSE [IdleTlCall EXCEPT !.pc = "done", !.op = "import",
                                  !.seq = TlStarted + 1, !.returned = FALSE]]
    /\ tlLast' = NoSave
    /\ UNCHANGED <<tlFile, tlNow, tlTicks, TlOthers>>

\* saveToStorage after ensureDataDir: the cleanup, then writeFile is issued
SavePrepare(c) ==
    /\ tlCalls[c].pc = "saving"
    /\ tlCalls' = [tlCalls EXCEPT ![c] =
          [@ EXCEPT !.pc = "writing",
                    !.logs = CleanedLogs(tlCalls[c].logs, tlNow),
                    !.savedAt = tlNow]]
    /\ tlLast' = NoSave
    /\ UNCHANGED <<tlFile, tlNow, tlTicks, TlOthers>>

\* writeFile settles: the file is what this call serialized, and the caller
\* returns
SaveWrite(c) ==
    /\ tlCalls[c].pc = "writing"
    /\ tlFile' = tlCalls[c].logs
    /\ tlCalls' = [tlCalls EXCEPT ![c] = [@ EXCEPT !.pc = "done", !.returned = TRUE]]
    /\ tlLast' = [op |-> "saved", call |-> c, given |-> tlCalls[c].given,
                  savedAt |-> tlCalls[c].savedAt]
    /\ UNCHANGED <<tlNow, tlTicks, TlOthers>>

NextTradeLog ==
    \/ \E d \in TlTickSteps : TlTick(d)
    \/ \E c \in TlCalls : AddStart(c)
    \/ \E c \in TlCalls : AddRead(c)
    \/ \E c \in TlCalls, json \in ImportInputs : ImportStart(c, json)
    \/ \E c \in TlCalls : SavePrepare(c)
    \/ \E c \in TlCalls : SaveWrite(c)

SpecTradeLog == InitTradeLog /\ [][NextTradeLog]_vars

-----------------------------------------------------------------------------
(* The trading state store                                                 *)

\* the file of a user, relative to DATA_DIR
FileName(userId) ==
    IF userId = "default" THEN "trading_state.json"
    ELSE "trading_state_" \o userId \o ".json"

\* date.toDateString(): the civil date of the instant t in local time
ToDateString(t) == CivilFromDays((t + TZ_OFFSET_MINUTES) \div 1440)

\* isToday, for a state saved at savedAt and read at now
IsToday_utc(savedAt, now) == savedAt \div 1440 = now \div 1440
IsToday(savedAt, now) == ToDateString(savedAt) = ToDateString(now)

MaxTsCalls == 2
MaxTsTicks == 2

TsCalls == 1..MaxTsCalls
Users == {"default", "u1"}
TsFileNames == {FileName(u) : u \in Users}
TsStates == {"monitoring"}

NoFile == [present |-> FALSE, savedAt |-> 0, state |-> ""]
StateFile(savedAt, state) == [present |-> TRUE, savedAt |-> savedAt, state |-> state]

\* pc: "saveDir" (saveTradingState awaiting ensureDataDir), "saveWriting"
\* (writeFile pending), "loadReading" (readFile pending), "clearing" (unlink
\* pending, from clearTradingState called directly or by loadTradingState)
IdleTsCall ==
    [pc |-> "idle", op |-> "none", user |-> "", content |-> NoFile,
     found |-> NoFile, readAt |-> 0]

\* the operation that has just returned; result is "null", a state, "true" or
\* "false"
NoTs == [op |-> "none", user |-> "", result |-> "", found |-> NoFile, readAt |-> 0]

InitTradingState ==
    /\ IdleCore
    /\ IdleExcept("tradingState")
    /\ tsNow \in TlStartMinutes
    /\ tsFiles \in {[f \in TsFileNames |-> NoFile],
                    [f \in TsFileNames |-> StateFile(tsNow - 1440, "monitoring")]}
    /\ tsTicks = 0
    /\ tsCalls = [c \in TsCalls |-> IdleTsCall]
    /\ tsLast = NoTs

TsOthers == <<coreVars, wmaVars, pointVars, tlVars, exVars>>

TsTick(d) ==
    /\ tsTicks < MaxTsTicks
    /\ tsNow' = tsNow + d
    /\ tsTicks' = tsTicks + 1
    /\ tsLast' = NoTs
    /\ UNCHANGED <<tsFiles, tsCalls, TsOthers>>

\* a call enters its first await; state is the state to save, if any
TsBegin(c, op, pc, userId, state) ==
    /\ tsCalls[c].pc = "idle"
    /\ \A d \in TsCalls : d < c => tsCalls[d].pc # "idle"
    /\ tsCalls' = [tsCalls EXCEPT ![c] =
          [IdleTsCall EXCEPT !.pc = pc, !.op = op, !.user = userId,
                             !.content = [NoFile EXCEPT !.state = state]]]
    /\ tsLast' = [NoTs EXCEPT !.user = userId]
    /\ UNCHANGED <<tsFiles, tsNow, tsTicks, TsOthers>>

\* saveTradingState(state, userId) up to its await of ensureDataDir
SaveStart(c, userId, state) == TsBegin(c, "save", "saveDir", userId, state)

\* stateToSave is built, stamped with the clock, and writeFile is issued
SaveStamp(c) ==
    /\ tsCalls[c].pc = "saveDir"
    /\ tsCalls' = [tsCalls EXCEPT ![c] =
          [@ EXCEPT !.pc = "saveWriting",
                    !.content = StateFile(tsNow, tsCalls[c].content.state)]]
    /\ tsLast' = [NoTs EXCEPT !.user = tsCalls[c].user]
    /\ UNCHANGED <<tsFiles, tsNow, tsTicks, TsOthers>>

\* writeFile settles and saveTradingState returns true
SaveDone(c) ==
    /\ tsCalls[c].pc = "saveWriting"
    /\ tsFiles' = [tsFiles EXCEPT ![FileName(tsCalls[c].user)] = tsCalls[c].content]
    /\ tsCalls' = [tsCalls EXCEPT ![c] = IdleTsCall]
    /\ tsLast' = [NoTs EXCEPT !.op = "save", !.user = tsCalls[c].user,
                              !.result = "true"]
    /\ UNCHANGED <<tsNow, tsTicks, TsOthers>>

\* loadTradingState(userId) up to its readFile
LoadStart(c, userId) == TsBegin(c, "load", "loadReading", userId, "")

\* readFile settles: no file, a state of today, or a state of another day,
\* for which clearTradingState is awaited
LoadRead(c) ==
    /\ tsCalls[c].pc = "loadReading"
    /\ LET file == tsFiles[FileName(tsCalls[c].user)]
           loaded == [NoTs EXCEPT !.op = "load", !.user = tsCalls[c].user,
                                  !.found = file, !.readAt = tsNow]
       IN  IF ~file.present
           THEN /\ tsCalls' = [tsCalls EXCEPT ![c] = IdleTsCall]
                /\ tsLast' = [loaded EXCEPT !.result = "null"]
           ELSE IF IsToday(file.savedAt, tsNow)
           THEN /\ tsCalls' = [tsCalls EXCEPT ![c] = IdleTsCall]
                /\ tsLast' = [loaded EXCEPT !.result = file.state]
           ELSE /\ tsCalls' = [tsCalls EXCEPT ![c] =
                      [@ EXCEPT !.pc = "clearing", !.found = file, !.readAt = tsNow]]
                /\ tsLast' = [NoTs EXCEPT !.user = tsCalls[c].user]
    /\ UNCHANGED <<tsFiles, tsNow, tsTicks, TsOthers>>

\* clearTradingState(userId) up to its unlink
ClearStart(c, userId) == TsBegin(c, "clear", "clearing", userId, "")

\* unlink settles (a missing file is not an error): clearTradingState returns
\* true, and loadTradingState, when it was the caller, returns null
Unlink(c) ==
    /\ tsCalls[c].pc = "clearing"
    /\ tsFiles' = [tsFiles EXCEPT ![FileName(tsCalls[c].user)] = NoFile]
    /\ tsCalls' = [tsCalls EXCEPT ![c] = IdleTsCall]
    /\ tsLast' = [NoTs EXCEPT
          !.op = tsCalls[c].op, !.user = tsCalls[c].user,
          !.result = IF tsCalls[c].op = "load" THEN "null" ELSE "true",
          !.found = tsCalls[c].found, !.readAt = tsCalls[c].readAt]
    /\ UNCHANGED <<tsNow, tsTicks, TsOthers>>

\* hasSavedState(userId): fs.access on the user's file
HasSavedState(userId) ==
    /\ tsLast' = [NoTs EXCEPT
          !.op = "hasSavedState", !.user = userId,
          !.result = IF tsFiles[FileName(userId)].present THEN "true" ELSE "false"]
    /\ UNCHANGED <<tsFiles, tsNow, tsTicks, tsCalls, TsOthers>>

NextTradingState ==
    \/ \E d \in TlTickSteps : TsTick(d)
    \/ \E c \in TsCalls, u \in Users, st \in TsStates : SaveStart(c, u, st)
    \/ \E c \in TsCalls : SaveStamp(c)
    \/ \E c \in TsCalls : SaveDone(c)
    \/ \E c \in TsCalls, u \in Users : LoadStart(c, u)
    \/ \E c \in TsCalls : LoadRead(c)
    \/ \E c \in TsCalls, u \in Users : ClearStart(c, u)
    \/ \E c \in TsCalls : Unlink(c)
    \/ \E u \in Users : HasSavedState(u)

SpecTradingState == InitTradingState /\ [][NextTradingState]_vars

-----------------------------------------------------------------------------
(* Expiry dates (symbolService.js)                                         *)

\* A Date is kept in local time: day is the local calendar day (days since
\* 1970-01-01) and min the local minute of the day.
LocalDate(day, min) == [day |-> day, min |-> min]

getDay(date) == (date.day + 4) % 7
getHours(date) == date.min \div 60
getMinutes(date) == date.min % 60
getTime(date) == date.day * 1440 + date.min

\* date.setDate(date.getDate() + k)
AddDays(date, k) == [date EXCEPT !.day = @ + k]

DateStr(y, m, d) == FourDigits(y) \o <<45>> \o TwoDigits(m) \o <<45>> \o TwoDigits(d)

HOLIDAYS_2025 ==
    {DateStr(2025, 2, 26), DateStr(2025, 3, 14), DateStr(2025, 3, 31),
     DateStr(2025, 4, 10), DateStr(2025, 4, 14), DateStr(2025, 4, 18),
     DateStr(2025, 5, 1), DateStr(2025, 8, 15), DateStr(2025, 8, 27),
     DateStr(2025, 10, 2), DateStr(2025, 10, 21), DateStr(2025, 10, 22),
     DateStr(2025, 11, 5), DateStr(2025, 12, 25)}

formatDate(date) ==
    LET c == CivilFromDays(date.day)
    IN  DateStr(c.y, c.m, c.d)

isHoliday(date) ==
    \/ getDay(date) = 0
    \/ getDay(date) = 6
    \/ formatDate(date) \in HOLIDAYS_2025

RECURSIVE adjustForHoliday(_)
adjustForHoliday(originalDate) ==
    IF isHoliday(originalDate) THEN adjustForHoliday(AddDays(originalDate, -1))
    ELSE originalDate

\* month is 0-based, as Date#getMonth
getLastWeekdayInMonth(year, month, weekday) ==
    LET nextMonth == IF month = 11 THEN 0 ELSE month + 1
        nextYear == IF month = 11 THEN year + 1 ELSE year
        lastDay == LocalDate(DaysFromCivil(nextYear, nextMonth + 1, 1) - 1, 0)
        lastDayOfWeek == getDay(lastDay)
        offset == IF lastDayOfWeek >= weekday THEN lastDayOfWeek - weekday
                  ELSE lastDayOfWeek + 7 - weekday
    IN  AddDays(lastDay, -offset)

getNextWeekday(currentDate, weekday) ==
    LET currentDayOfWeek == getDay(currentDate)
        offset == IF weekday >= currentDayOfWeek THEN weekday - currentDayOfWeek
                  ELSE 7 - (currentDayOfWeek - weekday)
    IN  AddDays(currentDate, offset)

ExpiryWeekday(indexName) == IF indexName = "SENSEX" THEN 2 ELSE 4

\* nextExpiry of getNextWeeklyExpiry, before adjustForHoliday
WeeklyBeforeAdjust(currentDate, indexName) ==
    LET weekday == ExpiryWeekday(indexName)
        nextExpiry == getNextWeekday(currentDate, weekday)
    IN  IF /\ getDay(currentDate) = weekday
           /\ getHours(currentDate) >= 15
           /\ getMinutes(currentDate) >= 30
        THEN AddDays(nextExpiry, 7)
        ELSE nextExpiry

getNextWeeklyExpiry(currentDate, indexName) ==
    adjustForHoliday(WeeklyBeforeAdjust(currentDate, indexName))

\* thisMonthExpiry of getNextMonthlyExpiry
ThisMonthExpiry(currentDate, indexName) ==
    LET c == CivilFromDays(currentDate.day)
    IN  adjustForHoliday(getLastWeekdayInMonth(c.y, c.m - 1, ExpiryWeekday(indexName)))

getNextMonthlyExpiry(currentDate, indexName) ==
    LET c == CivilFromDays(currentDate.day)
        year == c.y
        month == c.m - 1
        thisMonthExpiry == ThisMonthExpiry(currentDate, indexName)
        nextMonth == IF month = 11 THEN 0 ELSE month + 1
        nextYear == IF month = 11 THEN year + 1 ELSE year
    IN  IF \/ getTime(currentDate) < getTime(thisMonthExpiry)
           \/ /\ getTime(currentDate) = getTime(thisMonthExpiry)
              /\ getHours(currentDate) < 15
        THEN thisMonthExpiry
        ELSE adjustForHoliday(
                 getLastWeekdayInMonth(nextYear, nextMonth, ExpiryWeekday(indexName)))

\* the calls tried: every day of six weeks from 2025-10-20, at midnight, in
\* the morning and around 15:00 and 15:30
MaxExDays == 42
ExFirstDay == DaysFromCivil(2025, 10, 20)
ExMinutes == {0, 600, 899, 900, 929, 930, 970}
IndexNames == {"NIFTY", "SENSEX", "BANKNIFTY"}

NoExpiry == [done |-> FALSE, beforeAdjust |-> LocalDate(0, 0), result |-> LocalDate(0, 0)]

InitExpiry ==
    /\ IdleCore
    /\ IdleExcept("expiry")
    /\ \E fn \in {"weekly", "monthly"}, k \in 0..(MaxExDays - 1), m \in ExMinutes,
          indexName \in IndexNames :
          exIn = [fn |-> fn, currentDate |-> LocalDate(ExFirstDay + k, m),
                  indexName |-> indexName]
    /\ exOut = NoExpiry

ExOthers == <<coreVars, wmaVars, pointVars, tlVars, tsVars>>

ComputeWeekly ==
    /\ exIn.fn = "weekly"
    /\ ~exOut.done
    /\ exOut' = [done |-> TRUE,
                 beforeAdjust |-> WeeklyBeforeAdjust(exIn.currentDate, exIn.indexName),
                 result |-> getNextWeeklyExpiry(exIn.currentDate, exIn.indexName)]
    /\ UNCHANGED <<exIn, ExOthers>>

ComputeMonthly ==
    /\ exIn.fn = "monthly"
    /\ ~exOut.done
    /\ exOut' = [done |-> TRUE,
                 beforeAdjust |-> LocalDate(0, 0),
                 result |-> getNextMonthlyExpiry(exIn.currentDate, exIn.indexName)]
    /\ UNCHANGED <<exIn, ExOthers>>

NextExpiry == ComputeWeekly \/ ComputeMonthly

SpecExpiry == InitExpiry /\ [][NextExpiry]_vars

-----------------------------------------------------------------------------
(* Properties                                                              *)

FetchCall == "fetchAndCalculateHMA"

\* the two kinds of failure, by message
InsufficientDataErrors == {ERR_INSUFFICIENT_HMA, ERR_INSUFFICIENT, ERR_NO_HISTORY}
FetchErrors ==
    {ERR_NO_TOKEN, ERR_FETCH_DEFAULT} \cup ({r.message : r \in Responses} \ {""})

\* number of raw tuples whose local minute-of-day lies in 09:15 .. 15:30
InSessionCount(raw) ==
    Cardinality({k \in 1..Len(raw) :
                    /\ TotalMinutes(raw[k][1]) >= 555
                    /\ TotalMinutes(raw[k][1]) <= 930})

\* the cache entry a successful call leaves: the fetched in-session candles,
\* in order, with the hma of the returned series from index 54 on
IsEntryOf(entry, result, raw, now) ==
    /\ entry.present
    /\ entry.lastUpdate = now
    /\ Len(entry.candles) = InSessionCount(raw)
    /\ Len(result.data) = Len(entry.candles)
    /\ \A k \in 1..Len(entry.candles) :
          /\ entry.candles[k].timestamp = result.data[k].timestamp
          /\ entry.candles[k].close = result.data[k].close
          /\ k >= 55 => entry.candles[k].hma = result.data[k].hma

\* C1: a call is answered from the cache, with no history fetch, exactly when
\* an entry for the symbol exists, holds at least 60 candles and is less than
\* 5 minutes old; in every other case (no entry, or an age of exactly 5
\* minutes or more) the call invokes the history fetch.
C1_ServedFromCacheIffFresh ==
    lastStart.outcome # "none" =>
        LET fresh == /\ lastStart.had
                     /\ lastStart.count >= 60
                     /\ lastStart.age < 5 * 60 * 1000
        IN  /\ (lastStart.outcome = "hit") <=> fresh
            /\ lastStart.fetched <=> ~fresh
            /\ fresh => /\ lastResult.op = FetchCall
                        /\ lastResult.hit
                        /\ lastResult.fetches = 0
            /\ ~fresh =>
                  \/ /\ lastResult.op = FetchCall
                     /\ ~lastResult.hit
                     /\ lastResult.fetches = 1
                  \/ \E c \in Calls : /\ calls[c].pc = "fetching"
                                      /\ calls[c].symbol = lastStart.symbol
                                      /\ calls[c].fetches = 1

\* an entry of 60 or more candles, exactly 5 minutes old, is not served
C1_Witness ==
    /\ lastStart.outcome = "miss"
    /\ lastStart.had
    /\ lastStart.count >= 60
    /\ lastStart.age = 5 * 60 * 1000
    /\ lastStart.fetched

\* C2 (as stated): under single-threaded access two history fetches for one
\* symbol are never less than 5 minutes apart.
C2_AtMostOneFetchPerWindow ==
    (lastStart.fetched /\ lastStart.sinceFetch >= 0)
        => lastStart.sinceFetch >= 5 * 60 * 1000

\* C2 (amended): under single-threaded access, once a call has fetched and
\* stored an entry that has not been evicted since, the next history fetch for
\* that symbol comes no sooner than 5 minutes after that fetch.
C2_AtMostOneFetchPerWindowAfterStore ==
    (lastStart.fetched /\ lastStart.sinceFetch >= 0 /\ lastStart.prevKept)
        => lastStart.sinceFetch >= 5 * 60 * 1000

C2_Witness ==
    /\ lastStart.fetched
    /\ lastStart.prevKept
    /\ lastStart.had
    /\ lastStart.sinceFetch = 5 * 60 * 1000

\* C3: when two calls for one symbol overlap on a cache miss, each invokes its
\* own history fetch, each that gets its candles stores its entry, and the
\* entry left is the one of the call that finished last, whichever started
\* first.
C3_RaceLastWriteWins ==
    /\ \A c \in Calls : calls[c].pc = "fetching" => calls[c].fetches = 1
    /\ (lastResult.op = FetchCall /\ lastResult.race # "none") =>
          /\ ~lastResult.hit
          /\ lastResult.fetches = 1
          /\ lastResult.stored <=> ~lastResult.threw
          /\ lastResult.stored =>
                IsEntryOf(candleCache[lastResult.symbol], lastResult.value,
                          lastResult.fetched, clock)

\* the call that started first finishes last, after the other one has stored
C3_Witness ==
    /\ lastResult.op = FetchCall
    /\ lastResult.race = "first"
    /\ lastResult.otherStored
    /\ lastResult.stored

\* C4 (as stated): the first call for a symbol to start after clearCache has
\* returned is never answered from the cache.
C4_FreshFetchAfterEvict ==
    lastStart.afterEvict => lastStart.outcome = "miss"

\* C4 (amended): the first call for a symbol to start after clearCache has
\* returned invokes the history fetch, unless a call that was suspended in its
\* fetch when clearCache ran has stored an entry in between.
C4_FreshFetchAfterEvictUnlessStored ==
    (lastStart.afterEvict /\ ~lastStart.storedSinceEvict) =>
        /\ lastStart.outcome = "miss"
        /\ lastStart.fetched
        /\ ~lastStart.had

\* a miss after clearCache while an older call for the symbol is still in flight
C4_Witness ==
    /\ lastStart.afterEvict
    /\ ~lastStart.storedSinceEvict
    /\ lastStart.outcome = "miss"
    /\ Cardinality({c \in Calls : /\ calls[c].pc = "fetching"
                                  /\ calls[c].symbol = lastStart.symbol}) = 2

\* C5: clearCache removes the entry of the symbol and returns true exactly
\* when an entry was removed, false when there was none.
C5_EvictReturnsWhetherRemoved ==
    lastResult.op = "clearCache" =>
        /\ lastResult.returned <=> lastResult.hadEntry
        /\ lastResult.symbol # "" => ~candleCache[lastResult.symbol].present

\* C6: when the history fetch fails, the call fails with that same error after
\* exactly one fetch, and the step leaves the whole cache as it was (nothing
\* stored, a stale entry neither changed nor removed).
C6_FetchFailurePropagates ==
    [][(lastResult'.op = FetchCall /\ lastResult'.fetchThrew) =>
          /\ lastResult'.threw
          /\ lastResult'.error = lastResult'.fetchError
          /\ lastResult'.fetches = 1
          /\ ~lastResult'.stored
          /\ candleCache' = candleCache]_vars

\* a failed refetch with the stale entry still in the cache
C6_Witness ==
    /\ lastResult.op = FetchCall
    /\ lastResult.fetchThrew
    /\ lastResult.threw
    /\ candleCache[lastResult.symbol].present
    /\ clock - candleCache[lastResult.symbol].lastUpdate >= 5 * 60 * 1000

\* C7: on a cache miss whose fetch returns, fewer than 60 in-session candles
\* make the call fail with an insufficient-data error and leave the cache as
\* it was; 60 or more make it store the entry and return the HMA result.
C7_SixtyCandleGate ==
    [][(lastResult'.op = FetchCall /\ ~lastResult'.hit /\ ~lastResult'.fetchThrew) =>
          IF InSessionCount(lastResult'.fetched) < 60
          THEN /\ lastResult'.threw
               /\ lastResult'.error \in InsufficientDataErrors
               /\ ~lastResult'.stored
               /\ candleCache' = candleCache
          ELSE /\ ~lastResult'.threw
               /\ lastResult'.stored
               /\ lastResult'.value.period = 55
               /\ lastResult'.value.lastUpdate = clock'
               /\ IsEntryOf(candleCache'[lastResult'.symbol], lastResult'.value,
                            lastResult'.fetched, clock')]_vars

\* exactly 60 in-session candles out of 61 fetched: stored
C7_Witness ==
    /\ lastResult.op = FetchCall
    /\ lastResult.stored
    /\ Len(lastResult.fetched) = 61
    /\ InSessionCount(lastResult.fetched) = 60
    /\ Len(candleCache[lastResult.symbol].candles) = 60

\* C8: a failed call either carries the error of the history fetch or an
\* insufficient-data error raised with fewer than 60 in-session candles (an
\* empty history included); there is no third kind.
C8_TwoFailureKinds ==
    (lastResult.op = FetchCall /\ lastResult.threw) =>
        \/ /\ lastResult.fetchThrew
           /\ lastResult.error \in FetchErrors
           /\ lastResult.error \notin InsufficientDataErrors
        \/ /\ ~lastResult.fetchThrew
           /\ InSessionCount(lastResult.fetched) < 60
           /\ lastResult.error \in InsufficientDataErrors
           /\ lastResult.error \notin FetchErrors

\* the history source returned an empty sequence
C8_Witness ==
    /\ lastResult.op = FetchCall
    /\ lastResult.threw
    /\ ~lastResult.fetchThrew
    /\ Len(lastResult.fetched) = 0
    /\ lastResult.error \in InsufficientDataErrors

-----------------------------------------------------------------------------
(* Properties of calculateHMAFromCandles                                   *)

Computed == hmaOut # NotComputed

\* sum over i = lo .. hi of close[index - i] * (window - i), closes as integers
RECURSIVE IntWeightedSum(_, _, _, _, _)
IntWeightedSum(candles, index, window, lo, hi) ==
    IF lo > hi THEN 0
    ELSE IF lo = hi THEN candles[index - lo + 1].close.n * (window - lo)
    ELSE LET mid == (lo + hi) \div 2
         IN  IntWeightedSum(candles, index, window, lo, mid)
             + IntWeightedSum(candles, index, window, mid + 1, hi)

SomeCloseMissing(candles) == \E k \in 1..Len(candles) : candles[k].close.t # "num"

\* 2 * WMA27 # WMA55 at the last of 55 candles, over the common denominator
RawHmaNonZero55(candles) ==
    2 * 1540 * IntWeightedSum(candles, 54, 27, 0, 26)
        # 378 * IntWeightedSum(candles, 54, 55, 0, 54)

NonZeroPoints(data) == {k \in 1..Len(data) : data[k].hma # Num(0)}

\* C9 (as stated): fewer than 55 candles fail; exactly 55 candles give exactly
\* one non-zero hma, at index 54.
C9_ExactlyOneNonZeroPoint ==
    Computed =>
        /\ Len(hmaIn) < 55 => hmaOut.threw
        /\ Len(hmaIn) = 55 => /\ ~hmaOut.threw
                              /\ NonZeroPoints(hmaOut.value.data) = {55}

\* C9 (amended): fewer than 55 candles fail with the insufficient-data error;
\* exactly 55 candles succeed with hma 0 at every index below 54, and the hma
\* at index 54 is non-zero exactly when 2 * WMA27 differs from WMA55 there (or
\* a close is missing): at most one non-zero point, not always one.
C9_AtMostOneNonZeroPoint ==
    Computed =>
        /\ Len(hmaIn) < 55 => /\ hmaOut.threw
                              /\ hmaOut.error = ERR_INSUFFICIENT_HMA
        /\ Len(hmaIn) = 55 =>
              /\ ~hmaOut.threw
              /\ Len(hmaOut.value.data) = 55
              /\ NonZeroPoints(hmaOut.value.data) \subseteq {55}
              /\ (55 \in NonZeroPoints(hmaOut.value.data))
                    <=> (SomeCloseMissing(hmaIn) \/ RawHmaNonZero55(hmaIn))

\* 55 candles with non-zero closes whose only computed hma is 0
C9_Witness ==
    /\ Computed
    /\ Len(hmaIn) = 55
    /\ ~hmaOut.threw
    /\ \A k \in 1..55 : hmaIn[k].close.t = "num" /\ hmaIn[k].close.n > 0
    /\ NonZeroPoints(hmaOut.value.data) = {}

\* C10: in every series calculateHMAFromCandles returns, the hma of every point
\* at an index below 54 is the number 0 (not null), whatever the closes are.
C10_WarmUpZero ==
    (Computed /\ ~hmaOut.threw) =>
        \A k \in 1..Len(hmaOut.value.data) :
            k - 1 < 54 => hmaOut.value.data[k].hma = Num(0)

\* a series of more than 55 points whose first close is missing
C10_Witness ==
    /\ Computed
    /\ ~hmaOut.threw
    /\ Len(hmaOut.value.data) > 55
    /\ hmaIn[1].close = Undefined
    /\ hmaOut.value.data[1].hma = Num(0)

-----------------------------------------------------------------------------
(* The session filter                                                      *)

\* hour * 60 + minute of the local wall clock at epoch second ts
LocalMinuteOfDay(ts) ==
    LET secondOfDay == (ts + TZ_OFFSET_SECONDS) % 86400
    IN  (secondOfDay \div 3600) * 60 + (secondOfDay % 3600) \div 60

\* positions of the raw tuples inside the session, both ends included
KeptPositions(raw) ==
    {k \in 1..Len(raw) : /\ 555 <= LocalMinuteOfDay(raw[k][1])
                         /\ LocalMinuteOfDay(raw[k][1]) <= 930}

\* the j-th of them, in input order
NthKept(raw, j) ==
    CHOOSE k \in KeptPositions(raw) :
        Cardinality({i \in KeptPositions(raw) : i < k}) = j - 1

\* C12: the filter keeps a raw candle exactly when its local minute-of-day m
\* satisfies 555 <= m <= 930 (554 and 931 are dropped), and the kept candles
\* are the input's, in input order, none added, duplicated or re-sorted.
C12_KeepsSessionCandlesInOrder ==
    normOut.done =>
        /\ Len(normOut.candles) = Cardinality(KeptPositions(rawIn))
        /\ \A j \in 1..Len(normOut.candles) :
              LET r == rawIn[NthKept(rawIn, j)]
                  c == normOut.candles[j]
              IN  /\ c.timestamp = r[1]
                  /\ c.totalMinutes = LocalMinuteOfDay(r[1])
                  /\ <<c.open, c.high, c.low, c.close, c.volume>>
                        = <<r[2], r[3], r[4], r[5], r[6]>>
        /\ \A k \in 1..Len(rawIn) :
              LET m == LocalMinuteOfDay(rawIn[k][1])
                  out == \E j \in 1..Len(normOut.candles) :
                            normOut.candles[j].close = rawIn[k][5]
              IN  /\ out <=> (555 <= m /\ m <= 930)
                  /\ m \in {554, 931} => ~out
                  /\ m \in {555, 930} => out

\* four tuples at 15:30:59, 09:14:59, 15:31:00 and 09:15:00, in that order:
\* the first and the last are kept, the later time first
C12_Witness ==
    /\ normOut.done
    /\ Len(rawIn) = 4
    /\ [k \in 1..4 |-> LocalMinuteOfDay(rawIn[k][1])] = <<930, 554, 931, 555>>
    /\ rawIn[1][1] > rawIn[4][1]
    /\ Len(normOut.candles) = 2
    /\ normOut.candles[1].close = rawIn[1][5]
    /\ normOut.candles[2].close = rawIn[4][5]

\* C13 (as stated): the function applied to its own result returns exactly
\* the candles of that result, none excluded.
C13_NormalizeIdempotent ==
    normAgain.done =>
        /\ Len(normAgain.candles) = Len(normOut.candles)
        /\ \A k \in 1..Len(normOut.candles) :
              normAgain.candles[k].close = normOut.candles[k].close

-----------------------------------------------------------------------------
(* The HMA series                                                          *)

\* a close is missing among the span candles that end at index
WindowMissing(candles, index, span) ==
    \E j \in 0..(span - 1) : candles[index - j + 1].close.t # "num"

\* rawHMA(i) = 2 * WMA(i, 27) - WMA(i, 55) = S27 / 189 - S55 / 1540, with S27
\* and S55 the weighted sums of the closes: RawNumerator(i) / 41580
RawNumerator(candles, index) ==
    220 * IntWeightedSum(candles, index, 27, 0, 26)
        - 27 * IntWeightedSum(candles, index, 55, 0, 54)

\* 7 * rawHMA(i) + 6 * rawHMA(i - 1) + ... + 1 * rawHMA(i - 6), times 41580
RECURSIVE SmoothedNumerator(_, _, _)
SmoothedNumerator(candles, index, j) ==
    IF j > 6 THEN 0
    ELSE (7 - j) * RawNumerator(candles, index - j)
         + SmoothedNumerator(candles, index, j + 1)

\* C11: in every series calculateHMAFromCandles returns, hma[i] is
\* rawHMA(i) = 2 * WMA(i, 27) - WMA(i, 55) at 54 <= i < 60, and at i >= 60 it
\* is the sum of 7 * rawHMA(i), 6 * rawHMA(i - 1), ..., 1 * rawHMA(i - 6)
\* divided by 28 (not a number when a close of the window is missing).
C11_RawThenSmoothed ==
    (Computed /\ ~hmaOut.threw) =>
        \A k \in 1..Len(hmaOut.value.data) :
            LET i == k - 1
                hma == hmaOut.value.data[k].hma
            IN  /\ (54 <= i /\ i < 60) =>
                      hma = IF WindowMissing(hmaIn, i, 55) THEN NaN
                            ELSE Rat(RawNumerator(hmaIn, i), 41580)
                /\ i >= 60 =>
                      hma = IF WindowMissing(hmaIn, i, 61) THEN NaN
                            ELSE Rat(SmoothedNumerator(hmaIn, i, 0), 28 * 41580)

\* 61 candles whose smoothed hma at index 60 differs from rawHMA(60), after a
\* non-zero unsmoothed hma at index 59
C11_Witness ==
    /\ Computed
    /\ ~hmaOut.threw
    /\ Len(hmaIn) = 61
    /\ ~SomeCloseMissing(hmaIn)
    /\ hmaOut.value.data[60].hma = Rat(RawNumerator(hmaIn, 59), 41580)
    /\ hmaOut.value.data[60].hma # Num(0)
    /\ hmaOut.value.data[61].hma # Rat(RawNumerator(hmaIn, 60), 41580)
    /\ hmaOut.value.data[61].hma.t = "num"

\* C17 (as stated): currentHMA is the hma of the last point of data, also
\* when that hma is 0 or not a number.
C17_CurrentIsLastPoint ==
    (Computed /\ ~hmaOut.threw) =>
        hmaOut.value.currentHMA
            = hmaOut.value.data[Len(hmaOut.value.data)].hma

Ramp60 == PatternCandles("ramp", 60)

\* C18 (as stated): the series has the input's length, timestamps and closes;
\* for the 60 closes 100 .. 159 it has 60 points and a currentHMA that is not
\* 159 and lies below 159.
C18_RampBelowLastClose ==
    (Computed /\ ~hmaOut.threw) =>
        /\ Len(hmaOut.value.data) = Len(hmaIn)
        /\ \A k \in 1..Len(hmaIn) :
              /\ hmaOut.value.data[k].timestamp = hmaIn[k].timestamp
              /\ hmaOut.value.data[k].close = hmaIn[k].close
        /\ hmaIn = Ramp60 =>
              /\ Len(hmaOut.value.data) = 60
              /\ hmaOut.value.currentHMA # Num(159)
              /\ hmaOut.value.currentHMA.t = "num"
              /\ hmaOut.value.currentHMA.n < 159 * hmaOut.value.currentHMA.d

\* C18 (amended): the same, but for the 60 closes 100 .. 159 currentHMA is
\* 479/3 = 159.67: not 159, close to it, and above it (on a ramp of slope 1
\* rawHMA is the close plus 2/3).
C18_RampAboveLastClose ==
    (Computed /\ ~hmaOut.threw) =>
        /\ Len(hmaOut.value.data) = Len(hmaIn)
        /\ \A k \in 1..Len(hmaIn) :
              /\ hmaOut.value.data[k].timestamp = hmaIn[k].timestamp
              /\ hmaOut.value.data[k].close = hmaIn[k].close
        /\ hmaIn = Ramp60 =>
              /\ Len(hmaOut.value.data) = 60
              /\ hmaOut.value.currentHMA = JsVal("num", 479, 3)
              /\ hmaOut.value.currentHMA # Num(159)
              /\ hmaOut.value.currentHMA.n > 159 * hmaOut.value.currentHMA.d
              /\ hmaOut.value.currentHMA.n < 160 * hmaOut.value.currentHMA.d

C18_Witness ==
    /\ Computed
    /\ ~hmaOut.threw
    /\ hmaIn = Ramp60
    /\ hmaIn[60].close = Num(159)
    /\ Len(hmaOut.value.data) = 60
    /\ hmaOut.value.currentHMA.t = "num"

-----------------------------------------------------------------------------
(* The cache: what a hit returns, the statistics, and the frame             *)

\* C14 (as stated): a result served from the cache has the period, the data
\* (timestamp, close and hma at every index, 0 below index 54) and the
\* currentHMA of the result returned by the call that stored the entry.
C14_HitEqualsStoredResult ==
    (lastResult.op = FetchCall /\ lastResult.hit) =>
        /\ lastResult.value.period = written[lastResult.symbol].period
        /\ lastResult.value.data = written[lastResult.symbol].data
        /\ lastResult.value.currentHMA = written[lastResult.symbol].currentHMA

\* C15 (as stated): a result served from the cache carries a mark that the
\* result of the call that stored the entry does not carry.
C15_HitIsTagged ==
    (lastResult.op = FetchCall /\ lastResult.hit) =>
        DOMAIN lastResult.value \ DOMAIN written[lastResult.symbol] # {}

\* C16: getCacheStats returns one record {symbol, candleCount, lastUpdate} for
\* every symbol that has an entry, fresh or stale, and none for another
\* symbol, candleCount being the number of stored candles, and it leaves the
\* cache as it was.
C16_StatsSnapshot ==
    [][lastResult'.op = "getCacheStats" =>
          /\ candleCache' = candleCache
          /\ \A s \in Symbols :
                LET records == {r \in lastResult'.stats : r.symbol = s}
                IN  IF candleCache[s].present
                    THEN records = {[symbol |-> s,
                                     candleCount |-> Len(candleCache[s].candles),
                                     lastUpdate |-> candleCache[s].lastUpdate]}
                    ELSE records = {}
          /\ \A r \in lastResult'.stats : r.symbol \in Symbols]_vars

\* statistics taken with one symbol absent and the other holding a stale
\* entry of 61 candles
C16_Witness ==
    /\ lastResult.op = "getCacheStats"
    /\ \E s \in Symbols :
          /\ candleCache[s].present
          /\ Len(candleCache[s].candles) = 61
          /\ clock - candleCache[s].lastUpdate >= 5 * 60 * 1000
          /\ \A b \in Symbols \ {s} : ~candleCache[b].present
          /\ lastResult.stats = {[symbol |-> s, candleCount |-> 61,
                                  lastUpdate |-> candleCache[s].lastUpdate]}

\* C19: a step changes the entry of a symbol only if it is clearCache or a
\* fetchAndCalculateHMA call for that very symbol: the entry of every other
\* symbol keeps its candles and its lastUpdate.
C19_OtherSymbolsUntouched ==
    [][\A b \in Symbols :
          candleCache'[b] # candleCache[b] =>
              /\ lastResult'.op \in {FetchCall, "clearCache"}
              /\ lastResult'.symbol = b]_vars

\* a call for one symbol has just stored its entry while the other symbol
\* holds an entry written earlier
C19_Witness ==
    /\ lastResult.op = FetchCall
    /\ lastResult.stored
    /\ \E b \in Symbols \ {lastResult.symbol} :
          /\ candleCache[b].present
          /\ candleCache[b].lastUpdate < candleCache[lastResult.symbol].lastUpdate
          /\ candleCache[b].candles # candleCache[lastResult.symbol].candles

\* a raw tuple inside the session, both ends included
RawInSession(r) ==
    /\ 555 <= LocalMinuteOfDay(r[1])
    /\ LocalMinuteOfDay(r[1]) <= 930

\* the candles are the in-session tuples of raw, in order, field by field
SameCandles(candles, kept) ==
    /\ Len(candles) = Len(kept)
    /\ \A j \in 1..Len(kept) :
          <<candles[j].timestamp, candles[j].open, candles[j].high,
            candles[j].low, candles[j].close, candles[j].volume>> = kept[j]

HoldsNormalized(entry, raw) ==
    SameCandles(entry.candles, SelectSeq(raw, RawInSession))

\* C20: an entry changes only by being removed by clearCache or by being set
\* as a whole by a call that fetched, computed and returned; after such a call
\* the entry holds the in-session candles of that call's fetch and the time
\* of the write as lastUpdate. No step changes the candles or the lastUpdate
\* of an entry and keeps the other.
C20_EntriesReplacedWhole ==
    [][/\ \A s \in Symbols :
             candleCache'[s] # candleCache[s] =>
                 \/ /\ lastResult'.op = "clearCache"
                    /\ lastResult'.symbol = s
                    /\ candleCache'[s] = NoEntry
                 \/ /\ lastResult'.op = FetchCall
                    /\ lastResult'.symbol = s
                    /\ lastResult'.stored
                    /\ ~lastResult'.hit
                    /\ ~lastResult'.threw
       /\ (lastResult'.op = FetchCall /\ ~lastResult'.hit /\ ~lastResult'.threw) =>
             /\ lastResult'.stored
             /\ IsEntryOf(candleCache'[lastResult'.symbol], lastResult'.value,
                          lastResult'.fetched, clock')
             /\ HoldsNormalized(candleCache'[lastResult'.symbol], lastResult'.fetched)
             /\ candleCache'[lastResult'.symbol].lastUpdate = clock']_vars

\* a call has just replaced an older entry of its symbol by one with other
\* candles
C20_Witness ==
    /\ lastResult.op = FetchCall
    /\ lastResult.stored
    /\ lastResult.hadEntry
    /\ clock > 0
    /\ candleCache[lastResult.symbol].lastUpdate = clock
    /\ Len(candleCache[lastResult.symbol].candles) = 60
    /\ Len(lastResult.fetched) = 61

-----------------------------------------------------------------------------
(* calculateWMA and the final loop of calculateHMAForPoint                  *)

\* C22: calculateWMA(data, idx, window) is 0 when idx < window - 1; otherwise
\* it is the sum over k = 0 .. window - 1 of close[idx - k] * (window - k)
\* divided by window * (window + 1) / 2 (not a number when one of these closes
\* is missing), so the WMA of a constant series is that constant.
C22_WeightedAverage ==
    wmaOut.done =>
        LET idx == wmaIn.index
            window == wmaIn.period
        IN  /\ idx < window - 1 => wmaOut.value = Num(0)
            /\ idx >= window - 1 =>
                  wmaOut.value =
                     IF WindowMissing(wmaIn.data, idx, window) THEN NaN
                     ELSE Rat(IntWeightedSum(wmaIn.data, idx, window, 0, window - 1),
                              (window * (window + 1)) \div 2)
            /\ (idx >= window - 1 /\ wmaIn.data = PatternCandles("flat100", MaxCandles))
                  => wmaOut.value = Num(100)

\* the 55-candle WMA of a series whose window holds one close of 500 among
\* closes of 100: a full window, and a result that is neither close
C22_Witness ==
    /\ wmaOut.done
    /\ wmaIn.period = 55
    /\ wmaIn.index >= 54
    /\ wmaIn.data = PatternCandles("spike", MaxCandles)
    /\ wmaOut.value.t = "num"
    /\ wmaOut.value.n > 100 * wmaOut.value.d
    /\ wmaOut.value.n < 500 * wmaOut.value.d

\* C25: calculateHMAForPoint with period 55 reaches its final loop exactly
\* from index 60 on, and then no iteration is skipped on rawPos < 0, no
\* calculateWMA call lacks a full window, and weightSum3 is 28: the final
\* division is not by zero (and gives a number when no close is missing).
C25_FinalLoopComplete ==
    pointOut.done =>
        /\ pointOut.smoothed <=> pointIn.index >= 60
        /\ pointOut.smoothed =>
              /\ pointOut.skipped = {}
              /\ pointOut.shortWindows = {}
              /\ pointOut.weightSum3 = 28
              /\ ~SomeCloseMissing(pointIn.data) => pointOut.value.t = "num"

C25_Witness ==
    /\ pointOut.done
    /\ pointOut.smoothed
    /\ pointIn.index = 60
    /\ pointOut.weightSum3 = 28
    /\ pointOut.value.t = "num"
    /\ pointOut.value # Num(0)

-----------------------------------------------------------------------------
(* The life of a cache entry                                               *)

\* the step just taken was a stored recompute for symbol s
StoredFor(result, s) ==
    /\ result.op = "fetchAndCalculateHMA"
    /\ result.symbol = s
    /\ result.stored
    /\ ~result.hit
    /\ ~result.threw

\* C21: there is no automatic eviction. An entry leaves the cache only by
\* clearCache on its symbol and changes only by a successful recompute for its
\* symbol; no other step (the clock advancing, a lookup that finds it stale, a
\* recompute that fails, a lookup or eviction of another symbol) touches it,
\* and getCacheStats lists every entry of the cache however old it is.
C21_NoAutomaticEviction ==
    [][ /\ \A s \in Symbols :
             /\ (candleCache[s].present /\ ~candleCache'[s].present)
                   => (lastResult'.op = "clearCache" /\ lastResult'.symbol = s)
             /\ (candleCache[s].present /\ candleCache'[s].present
                   /\ candleCache'[s] # candleCache[s])
                   => StoredFor(lastResult', s)
        /\ lastResult'.op = "getCacheStats" =>
              \A s \in Symbols :
                  candleCache[s].present <=>
                      \E r \in lastResult'.stats :
                          r.symbol = s /\ r.lastUpdate = candleCache[s].lastUpdate
      ]_vars

\* a recompute has just failed for a symbol whose entry is five minutes old:
\* the entry is still there
C21_Witness ==
    /\ lastResult.op = "fetchAndCalculateHMA"
    /\ lastResult.threw
    /\ ~lastResult.hit
    /\ lastResult.hadEntry
    /\ candleCache[lastResult.symbol].present
    /\ clock - candleCache[lastResult.symbol].lastUpdate >= CACHE_MS

\* C23: every entry of the cache holds at least 60 candles, so a lookup is a
\* hit exactly when there is an entry younger than five minutes: the
\* candle-count condition of the freshness test never decides.
C23_EntriesHoldRequiredCandles ==
    /\ \A s \in Symbols :
          candleCache[s].present => Len(candleCache[s].candles) >= 60
    /\ lastStart.outcome # "none" =>
          /\ lastStart.had => lastStart.count >= 60
          /\ lastStart.outcome = "hit" <=>
                (lastStart.had /\ lastStart.age < CACHE_MS)

\* a lookup finds an entry of exactly 60 candles and misses on its age
C23_Witness ==
    /\ lastStart.outcome = "miss"
    /\ lastStart.had
    /\ lastStart.count = 60
    /\ lastStart.age >= CACHE_MS

\* C24: a cache hit leaves the cache unchanged and returns the entry's
\* lastUpdate, which is the time the entry was written: every step that
\* writes an entry stamps it with the clock, and a lookup is served from the
\* entry only while the clock is less than five minutes past that time.
C24_HitDoesNotExtendFreshness ==
    [][ /\ (lastResult'.op = "fetchAndCalculateHMA" /\ lastResult'.hit) =>
              /\ candleCache' = candleCache
              /\ candleCache[lastResult'.symbol].present
              /\ lastResult'.value.lastUpdate =
                    candleCache[lastResult'.symbol].lastUpdate
              /\ clock - candleCache[lastResult'.symbol].lastUpdate < CACHE_MS
        /\ \A s \in Symbols :
              (candleCache'[s].present /\ candleCache'[s] # candleCache[s])
                  => candleCache'[s].lastUpdate = clock'
        /\ (lastStart'.outcome # "none" /\ candleCache[lastStart'.symbol].present
               /\ clock - candleCache[lastStart'.symbol].lastUpdate >= CACHE_MS)
              => (lastStart'.outcome = "miss" /\ ~lastResult'.hit)
      ]_vars

\* a hit one millisecond before the entry expires, returning the write time
C24_Witness ==
    /\ lastResult.op = "fetchAndCalculateHMA"
    /\ lastResult.hit
    /\ lastStart.age = CACHE_MS - 1
    /\ lastResult.value.lastUpdate = candleCache[lastResult.symbol].lastUpdate
    /\ lastResult.value.lastUpdate < clock

-----------------------------------------------------------------------------
(* The trade log store                                                     *)

\* the entries stored under key, as a set
StoredUnder(key) ==
    IF key \in DOMAIN tlFile
    THEN {tlFile[key][i] : i \in 1..Len(tlFile[key])}
    ELSE {}

\* entry c stands before entry d in the list stored under key
StoredBeforeIn(key, c, d) ==
    \E i, j \in 1..Len(tlFile[key]) :
        i < j /\ tlFile[key][i] = c /\ tlFile[key][j] = d

\* C26: when all the calls made were addTradeLog calls and all have completed,
\* overlapping or not, the entry of each is in the stored list of its day, and
\* of two entries of the same day the one created later comes first.
C26_CompletedLogsStored ==
    (\A c \in TlCalls : tlCalls[c].op = "add" /\ tlCalls[c].pc = "done") =>
        \A c \in TlCalls :
            /\ c \in StoredUnder(tlCalls[c].key)
            /\ \A d \in TlCalls :
                  (tlCalls[d].key = tlCalls[c].key /\ tlCalls[d].seq < tlCalls[c].seq)
                      => StoredBeforeIn(tlCalls[c].key, c, d)

\* the day whose ISO date is key, among the days around the model's
DayOfKey(key) ==
    CHOOSE n \in (TlBaseDay - 70)..(TlBaseDay + 10) : ISODateKey(n * 1440) = key

\* C30: when saveToStorage has written, the file holds exactly the date keys
\* of the logs it was given that are not more than 60 days before the (UTC)
\* day of the save, each with the entries it was given.
C30_KeepsSixtyDays ==
    tlLast.op = "saved" =>
        /\ DOMAIN tlFile =
              {k \in DOMAIN tlLast.given :
                  DayOfKey(k) >= (tlLast.savedAt \div 1440) - 60}
        /\ \A k \in DOMAIN tlFile : tlFile[k] = tlLast.given[k]

\* a save that dropped a key of 61 days ago and kept the key of 60 days ago
C30_Witness ==
    /\ tlLast.op = "saved"
    /\ \E k \in DOMAIN tlLast.given :
          DayOfKey(k) = (tlLast.savedAt \div 1440) - 61 /\ k \notin DOMAIN tlFile
    /\ \E k \in DOMAIN tlLast.given :
          DayOfKey(k) = (tlLast.savedAt \div 1440) - 60 /\ k \in DOMAIN tlFile

-----------------------------------------------------------------------------
(* The trading state store                                                 *)

\* the local calendar day of the instant t (UTC+05:30)
LocalDay(t) == (t + 330) \div 1440

-----------------------------------------------------------------------------
(* Expiry dates                                                            *)

\* C28: getNextWeeklyExpiry called on the expiry weekday gives, before the
\* holiday adjustment, the same day when the time is before 15:30 and the day
\* one week later from 15:30 on.
C28_WeeklyRollsAfterClose ==
    (/\ exOut.done
     /\ exIn.fn = "weekly"
     /\ getDay(exIn.currentDate) = ExpiryWeekday(exIn.indexName))
        => exOut.beforeAdjust.day =
              IF exIn.currentDate.min >= MARKET_END_MINUTES
              THEN exIn.currentDate.day + 7
              ELSE exIn.currentDate.day

\* the holiday-adjusted expiry of the month after that of date
NextMonthExpiry(date, indexName) ==
    LET c == CivilFromDays(date.day)
    IN  adjustForHoliday(
            getLastWeekdayInMonth(IF c.m = 12 THEN c.y + 1 ELSE c.y,
                                  IF c.m = 12 THEN 0 ELSE c.m,
                                  ExpiryWeekday(indexName)))

\* C29: getNextMonthlyExpiry gives the current month's holiday-adjusted expiry
\* day when the current day is before it, or is that day with the hour before
\* 15, and the next month's otherwise.
C29_MonthlyOnExpiryDay ==
    (exOut.done /\ exIn.fn = "monthly") =>
        LET this == ThisMonthExpiry(exIn.currentDate, exIn.indexName)
        IN  exOut.result.day =
               IF \/ exIn.currentDate.day < this.day
                  \/ /\ exIn.currentDate.day = this.day
                     /\ exIn.currentDate.min < 15 * 60
               THEN this.day
               ELSE NextMonthExpiry(exIn.currentDate, exIn.indexName).day

====
